---- MODULE Spec2Model ----
(***************************************************************************)
(* Tideland Go Wait: the poll engine (Poll, check), the caller's context,  *)
(* the cancellation scope handed to the ticker, and the ticker goroutine   *)
(* that feeds the unbuffered pulse channel tickc.                          *)
(*                                                                         *)
(* Poll and check are translated from poll.go.  The user-defined ticker is *)
(* translated from TestUserDefinedTicker.  The generic interval ticker and *)
(* the change functions of the interval and the bounded-count ticker live  *)
(* in ticker.go, which is not part of the sources at hand; they follow the *)
(* written specification of the ticker protocol.                           *)
(***************************************************************************)
EXTENDS Integers, Sequences, FiniteSets, TLC

\* ------------------------------------------------------------------ bounds
\* Largest count N given to a bounded-count or a user-defined ticker.
MaxN == 3
\* Cap on the pulses of a ticker that never ends by itself.
MaxTicks == 3

\* Largest interval, offset and timeout handed to MakeJitteringTicker, in
\* clock units.
MaxInterval == 2
MaxOffset == 1
MaxTimeout == 4
\* Concurrent callers of Process, largest burst, largest batch, and the last
\* instant of the throttle's clock.
NCallers == 3
MaxBurst == 2
MaxBatch == 2
MaxClock == 1

\* --------------------------------------------------------------- constants
\* time.Millisecond and the largest time.Duration, math.MaxInt64, in clock
\* units: a Duration is a signed integer of DurationBits bits.
Millisecond == 2
DurationBits == 4
MaxDuration == 2^(DurationBits - 1) - 1
Durations == (-MaxDuration - 1)..MaxDuration
\* The interval the tests hand to the ticker constructors, in milliseconds.
Interval == 5
\* time.Second, in milliseconds.
Second == 1000

\* The texts of the errors Poll returns.
ErrCancelled == "context has been cancelled with error"
ErrExceeded == "ticker exceeded while waiting for the condition"
ErrCondition == "poll condition returned error"
ErrPanic == "panic during condition check"
\* A panic that leaves Poll unrecovered (Go unwinds the caller's stack).
\* Throttle: rate.Inf / InfLimit, the largest duration, and "no deadline".
InfLimit == 9
InfDuration == 99
NoDeadline == -1

\* What Process returns when it runs no event, and the error of a task.
ErrBurst == "exceeds burst"
ErrCtx == "context done"
ErrDeadline == "would exceed context deadline"
ErrAlreadyDone == "context already done"
ErrWaitCancelled == "context timed out or cancelled"
ErrEvent == "processing event returned error"
ErrTask == "ouch"

Unwound == "panic unwinds out of Poll"

\* What one invocation of a ConditionFunc can do: return (ok, err) or panic.
Outcomes == {"false_nil", "true_nil", "false_err", "true_err", "panic"}

\* The ticker strategies of the model.
GenericKinds == {"interval", "max", "chg"}
Kinds == GenericKinds \cup {"user"}

VARIABLES
    pc,          \* Poll: "idle", "select" (waiting), "checking", "done"; "off": no Poll
    result,      \* Poll's return value: "none" while running, "nil", or an error text
    cause,       \* what the returned error wraps (%v argument), "nil" if nothing
    branch,      \* the select case Poll took last: "none", "ctx", "tick", "closed"
    ctxDone,     \* the caller's ctx is done
    ctxErr,      \* ctx.Err()
    ctxAt,       \* where Poll stood when ctx became done ("never" before)
    tickCtxDone, \* the scope handed to the ticker has been cancelled
    kind,        \* ticker strategy
    max,         \* N of the bounded-count ticker, pulse count of the user ticker
    tpc,         \* ticker goroutine: "off", "change", "sleep", "emit", "sent", "exit"
    tdelay,      \* the delay the change function returned last (0 before the first call)
    tcount,      \* the counter the ticker's closure captures
    tickClosed,  \* tickc has been closed
    emitted,     \* pulses handed over on tickc so far
    started,     \* condition invocations started so far
    calls,       \* outcomes of the condition invocations that have returned
    checked,     \* for each invocation, the number of the pulse that caused it
    pulses,      \* for each pulse Poll received, the time it was received at
    now,         \* the clock, time.Now()
    jinterval,   \* jitter ticker: interval after the sanitizing; interval of a deadline ticker
    joffset,     \* jitter ticker: offset after the sanitizing
    jdeadline,   \* jitter ticker: deadline = start.Add(timeout); deadline of a deadline ticker
    jnext,       \* jitter ticker: next, the running fire time of the closure
    wakeAt,      \* the time the timer of the sleeping ticker goroutine is set to
    variant,     \* throttle: "limiter", "load" or "batch"
    limit,       \* throttle: the configured rate, tokens a clock unit
    cfgBurst,    \* throttle: the burst it was created with
    burst,       \* limiter: burst (limit 0 uses it up)
    tokens,      \* limiter: tokens at time last
    last,        \* limiter: last
    lastEvent,   \* limiter: lastEvent
    currentLoad, \* load tracking throttle: currentLoad
    slots,       \* batch throttle: slots in use
    mu,          \* load tracking throttle: mu, its writer (0: none) and its readers
    call         \* per caller: the Process call, see NoCall

pollVars == <<pc, result, cause, branch>>
ctxVars == <<ctxDone, ctxErr, ctxAt>>
tickerVars == <<kind, max, tpc, tdelay, tcount, tickClosed>>
condVars == <<started, calls, checked, pulses>>
jitterVars == <<jinterval, joffset, jdeadline, jnext, wakeAt>>
\* What no step of Poll and no step of the untimed tickers changes.
limiterState == <<tokens, last, lastEvent>>
limiterVars == <<burst, limiterState>>
throttleState == <<variant, limit, cfgBurst, limiterVars, currentLoad, slots, mu>>
throttleVars == <<throttleState, call>>
otherVars == <<now, jitterVars, throttleVars>>
\* What no step of a throttle changes.
pollSide == <<pollVars, ctxVars, tickCtxDone, tickerVars, emitted, condVars, jitterVars>>
vars == <<pc, result, cause, branch, ctxDone, ctxErr, ctxAt, tickCtxDone, kind, max,
          tpc, tdelay, tcount, tickClosed, emitted, started, calls, checked,
          pulses, otherVars>>

\* ----------------------------------------------------------------- tickers

\* MakeIntervalTicker's change function: the same delay, forever.
IntervalChanger(in, count) ==
    [delay |-> Interval, ok |-> TRUE, count |-> count]

\* MakeMaxIntervalsTicker's change function: the fixed delay for up to N
\* calls, then continue = false.
MaxIntervalsChanger(in, count) ==
    IF count + 1 > max
    THEN [delay |-> 0, ok |-> FALSE, count |-> count + 1]
    ELSE [delay |-> Interval, ok |-> TRUE, count |-> count + 1]

\* mkChgTicker's change function: the interval first, then twice the delay
\* used before, until that exceeds a second.
ChgChanger(in, count) ==
    IF in = 0
    THEN [delay |-> Interval, ok |-> TRUE, count |-> count]
    ELSE IF in * 2 > Second
    THEN [delay |-> 0, ok |-> FALSE, count |-> count]
    ELSE [delay |-> in * 2, ok |-> TRUE, count |-> count]

Changer(in, count) ==
    IF kind = "max" THEN MaxIntervalsChanger(in, count)
    ELSE IF kind = "chg" THEN ChgChanger(in, count)
    ELSE IntervalChanger(in, count)

\* The generic interval ticker handing zero to every call of the change
\* function.
TickerChange_ZeroIn ==
    /\ tpc = "change"
    /\ kind \in GenericKinds
    /\ kind = "interval" => (emitted < MaxTicks \/ tickCtxDone)
    /\ LET c == Changer(0, tcount) IN
         /\ tcount' = c.count
         /\ IF c.ok
            THEN /\ tdelay' = c.delay
                 /\ tpc' = "sleep"
                 /\ UNCHANGED tickClosed
            ELSE /\ tpc' = "exit"
                 /\ tickClosed' = TRUE
                 /\ UNCHANGED tdelay
    /\ UNCHANGED otherVars
    /\ UNCHANGED <<pollVars, ctxVars, tickCtxDone, kind, max, emitted, condVars>>

\* Generic interval ticker: call the change function with the delay used
\* before; continue = false closes the stream and ends the goroutine,
\* otherwise the goroutine sleeps for the delay.
TickerChange ==
    /\ tpc = "change"
    /\ kind \in GenericKinds
    /\ kind = "interval" => (emitted < MaxTicks \/ tickCtxDone)
    /\ LET c == Changer(tdelay, tcount) IN
         /\ tcount' = c.count
         /\ IF c.ok
            THEN /\ tdelay' = c.delay
                 /\ tpc' = "sleep"
                 /\ UNCHANGED tickClosed
            ELSE /\ tpc' = "exit"
                 /\ tickClosed' = TRUE
                 /\ UNCHANGED tdelay
    /\ UNCHANGED otherVars
    /\ UNCHANGED <<pollVars, ctxVars, tickCtxDone, kind, max, emitted, condVars>>

\* Generic interval ticker: the delay has elapsed, the pulse is offered.
TickerSleep ==
    /\ kind \in GenericKinds
    /\ tpc = "sleep"
    /\ tpc' = "emit"
    /\ UNCHANGED otherVars
    /\ UNCHANGED <<pollVars, ctxVars, tickCtxDone, kind, max, tdelay, tcount,
                   tickClosed, emitted, condVars>>

\* Generic interval ticker: sleeping and offering race against the scope.
TickerCancelled ==
    /\ kind \in GenericKinds
    /\ tpc \in {"sleep", "emit"}
    /\ tickCtxDone
    /\ tpc' = "exit"
    /\ UNCHANGED otherVars
    /\ UNCHANGED <<pollVars, ctxVars, tickCtxDone, kind, max, tdelay, tcount,
                   tickClosed, emitted, condVars>>

\* User-defined ticker, after a send: count++, and at the limit the
\* goroutine returns, its deferred close(tickc) runs.
UserCounted ==
    /\ kind = "user"
    /\ tpc = "sent"
    /\ tcount' = tcount + 1
    /\ IF tcount + 1 = max
       THEN tpc' = "exit" /\ tickClosed' = TRUE
       ELSE tpc' = "emit" /\ UNCHANGED tickClosed
    /\ UNCHANGED otherVars
    /\ UNCHANGED <<pollVars, ctxVars, tickCtxDone, kind, max, tdelay, emitted,
                   condVars>>

\* The user-defined ticker looking at its scope only between two sends.
UserCancelled_AfterSend ==
    /\ kind = "user"
    /\ tpc = "sent"
    /\ tickCtxDone
    /\ tpc' = "exit"
    /\ tickClosed' = TRUE
    /\ UNCHANGED otherVars
    /\ UNCHANGED <<pollVars, ctxVars, tickCtxDone, kind, max, tdelay, tcount,
                   emitted, condVars>>

\* User-defined ticker: case <-ctx.Done() returns, the deferred close runs.
UserCancelled ==
    /\ kind = "user"
    /\ tpc = "emit"
    /\ tickCtxDone
    /\ tpc' = "exit"
    /\ tickClosed' = TRUE
    /\ UNCHANGED otherVars
    /\ UNCHANGED <<pollVars, ctxVars, tickCtxDone, kind, max, tdelay, tcount,
                   emitted, condVars>>

\* Where the ticker goroutine stands right after ticker(tickCtx).
TickerStart == IF kind = "user" THEN "emit" ELSE "change"

\* Where the ticker goroutine stands right after its send was received.
TickerSent == IF kind = "user" THEN "sent" ELSE "change"

\* ----------------------------------------------------------- jitter ticker

\* MakeJitteringTicker, the sanitizing of offset.
SanitizeOffset(offset) == IF offset < 0 THEN 0 ELSE offset

\* MakeJitteringTicker capping the interval at the largest Duration, whatever
\* the offset.
SanitizeInterval_NoCap(interval, offset) ==
    LET i == IF interval < Millisecond THEN Millisecond ELSE interval
    IN IF i > MaxDuration THEN MaxDuration ELSE i

\* MakeJitteringTicker, the sanitizing of interval: at least a millisecond,
\* and offset + interval within the range of a Duration.
SanitizeInterval(interval, offset) ==
    LET i == IF interval < Millisecond THEN Millisecond ELSE interval
        o == SanitizeOffset(offset)
    IN IF i > MaxDuration - o THEN MaxDuration - o ELSE i

\* a + b of two Durations: the sum wraps around at the width of a Duration.
DurationAdd(a, b) ==
    ((a + b + MaxDuration + 1) % 2^DurationBits) - MaxDuration - 1

\* The change function never looking at the deadline.
JitterRange_NoDeadline(t) == jinterval

\* The change function drawing from the whole interval up to the deadline.
JitterRange_NoShrink(t) == IF t > jdeadline THEN 0 ELSE jinterval

\* The change function of MakeJitteringTicker: the range the jitter is drawn
\* from when the function is called at time t; 0 when the function stops
\* before it draws.
JitterRange(t) ==
    IF t > jdeadline THEN 0
    ELSE IF jdeadline - t < DurationAdd(joffset, jinterval)
    THEN (IF jdeadline - t - joffset < 1 THEN 0 ELSE jdeadline - t - joffset)
    ELSE jinterval

\* The change function called at time t gets as far as its call of rand.Int.
JitterDrawn(t) ==
    /\ ~(t > jdeadline)
    /\ ~(jdeadline - t < DurationAdd(joffset, jinterval) /\ jdeadline - t - joffset < 1)

\* The draws rand.Int can come back with: a jitter in [0, range), or -1 for
\* its error.
JitterDraws(t) == IF JitterRange(t) = 0 THEN {-1} ELSE -1..(JitterRange(t) - 1)

\* The change function returning time.Until(next) as it is, below 0 as well.
JitterChanger_NoMax(t, j) ==
    IF JitterRange(t) = 0 \/ j < 0
    THEN [ok |-> FALSE, delay |-> 0, next |-> jnext]
    ELSE LET nxt == jnext + joffset + j IN
         [ok |-> TRUE, delay |-> nxt - t, next |-> nxt]

\* The change function of MakeJitteringTicker, called at time t with the
\* draw j: wait = offset + jitter, next = next.Add(wait),
\* delay = max(time.Until(next), 0).
JitterChanger(t, j) ==
    IF JitterRange(t) = 0 \/ j < 0
    THEN [ok |-> FALSE, delay |-> 0, next |-> jnext]
    ELSE LET nxt == jnext + joffset + j IN
         [ok |-> TRUE,
          delay |-> IF nxt - t > 0 THEN nxt - t ELSE 0,
          next |-> nxt]

\* The ticker goroutine gets to its next call of the change function at
\* once; after MaxTicks pulses it gets to it only when the function stops.
JitterChangeDue == emitted < MaxTicks \/ JitterRange(now) = 0

\* Generic interval ticker driven by the jitter change function: the call of
\* the change function; continue = false closes the stream, otherwise the
\* timer is set to the delay.
JitterChange ==
    /\ kind = "jitter"
    /\ tpc = "change"
    /\ JitterChangeDue
    /\ \E j \in JitterDraws(now) :
         LET c == JitterChanger(now, j) IN
           /\ jnext' = c.next
           /\ IF c.ok
              THEN /\ tdelay' = c.delay
                   /\ wakeAt' = now + c.delay
                   /\ tpc' = "sleep"
                   /\ UNCHANGED tickClosed
              ELSE /\ tpc' = "exit"
                   /\ tickClosed' = TRUE
                   /\ UNCHANGED <<tdelay, wakeAt>>
    /\ UNCHANGED <<pollVars, ctxVars, tickCtxDone, kind, max, tcount, emitted,
                   condVars, now, jinterval, joffset, jdeadline, throttleVars>>

\* Generic interval ticker, timed: the timer fires, the pulse is offered.
JitterSleep ==
    /\ kind = "jitter"
    /\ tpc = "sleep"
    /\ now >= wakeAt
    /\ tpc' = "emit"
    /\ UNCHANGED <<pollVars, ctxVars, tickCtxDone, kind, max, tdelay, tcount,
                   tickClosed, emitted, condVars, otherVars>>

\* Generic interval ticker, timed: sleeping and offering race against the
\* scope.
JitterCancelled ==
    /\ kind = "jitter"
    /\ tpc \in {"sleep", "emit"}
    /\ tickCtxDone
    /\ tpc' = "exit"
    /\ UNCHANGED <<pollVars, ctxVars, tickCtxDone, kind, max, tdelay, tcount,
                   tickClosed, emitted, condVars, otherVars>>

\* -- MakeJitteringTicker and its change function, on any arguments

\* MakeJitteringTicker(interval, offset, timeout), called at time now with
\* the arguments that jinterval, joffset and jdeadline hold.
MakeJitteringTicker ==
    /\ pc = "off"
    /\ kind = "none"
    /\ kind' = "jitter"
    /\ jinterval' = SanitizeInterval(jinterval, joffset)
    /\ joffset' = SanitizeOffset(joffset)
    /\ jdeadline' = now + jdeadline
    /\ jnext' = now
    /\ tpc' = "change"
    /\ UNCHANGED <<pollVars, ctxVars, tickCtxDone, max, tdelay, tcount, tickClosed,
                   emitted, condVars, now, wakeAt, throttleVars>>

\* The ticker calls the change function, at the earliest when the delay of
\* the call before has gone by.  rand.Int panics on a range below 1.
changer ==
    /\ pc = "off"
    /\ kind = "jitter"
    /\ tpc = "change"
    /\ now >= wakeAt
    /\ IF JitterDrawn(now) /\ JitterRange(now) < 1
       THEN /\ tpc' = "panic"
            /\ UNCHANGED <<jnext, tdelay, wakeAt, tickClosed>>
       ELSE \E j \in JitterDraws(now) :
              LET c == JitterChanger(now, j) IN
                /\ jnext' = c.next
                /\ IF c.ok
                   THEN /\ tdelay' = c.delay
                        /\ wakeAt' = now + c.delay
                        /\ UNCHANGED <<tpc, tickClosed>>
                   ELSE /\ tpc' = "exit"
                        /\ tickClosed' = TRUE
                        /\ UNCHANGED <<tdelay, wakeAt>>
    /\ UNCHANGED <<pollVars, ctxVars, tickCtxDone, kind, max, tcount, emitted,
                   condVars, now, jinterval, joffset, jdeadline, throttleVars>>

\* Time passes between two calls of the change function.
MakePass ==
    /\ pc = "off"
    /\ kind = "jitter"
    /\ tpc = "change"
    /\ now < MaxTimeout + 1
    /\ now' = now + 1
    /\ UNCHANGED <<pollVars, ctxVars, tickCtxDone, tickerVars, emitted,
                   condVars, jitterVars, throttleVars>>

\* A step of the ticker goroutine that takes no time is due.
TickerUrgent ==
    \/ tpc = "change" /\ JitterChangeDue
    \/ tpc = "sleep" /\ now >= wakeAt
    \/ tpc \in {"sleep", "emit"} /\ tickCtxDone

\* A step of Poll that takes no time is due.
PollUrgent ==
    \/ pc = "idle"
    \/ pc = "select" /\ (tpc = "emit" \/ tickClosed \/ ctxDone)

\* Time passes: while the condition is being checked, and while Poll waits
\* for a ticker whose timer has not fired yet.
Tick ==
    /\ kind = "jitter"
    /\ ~TickerUrgent
    /\ ~PollUrgent
    /\ now < MaxTimeout + 2
    /\ now' = now + 1
    /\ UNCHANGED <<pollVars, ctxVars, tickCtxDone, tickerVars, emitted,
                   condVars, jitterVars, throttleVars>>

\* ------------------------------------------- deadline and timeout tickers

\* The tickers that end at a deadline: MakeDeadlinedIntervalTicker,
\* MakeExpiringIntervalTicker and MakeExpiringMaxIntervalsTicker.  Their
\* interval is jinterval, their deadline jdeadline.
DeadlinedKinds == {"deadline", "expiring", "expmax"}

\* MakeExpiringIntervalTicker and MakeExpiringMaxIntervalsTicker: the deadline
\* of a ticker created at start with timeout.
ExpiringDeadline(start, timeout) == start + timeout

\* The deadline-bounded change function that never looks at the deadline.
DeadlinedChanger_Forever(t, count) ==
    [ok |-> TRUE, delay |-> jinterval, count |-> count]

\* The change function of the deadline-bounded and of the timeout-bounded
\* ticker, called at time t: the fixed delay while t is before the deadline.
DeadlinedChanger(t, count) ==
    IF t < jdeadline
    THEN [ok |-> TRUE, delay |-> jinterval, count |-> count]
    ELSE [ok |-> FALSE, delay |-> 0, count |-> count]

\* The combined change function counting without looking at the deadline.
ExpiringMaxChanger_CountOnly(t, count) ==
    IF count + 1 > max
    THEN [ok |-> FALSE, delay |-> 0, count |-> count + 1]
    ELSE [ok |-> TRUE, delay |-> jinterval, count |-> count + 1]

\* The change function of the combined bounded-count+timeout ticker: it stops
\* on the limit that is hit first.
ExpiringMaxChanger(t, count) ==
    IF count + 1 > max \/ ~(t < jdeadline)
    THEN [ok |-> FALSE, delay |-> 0, count |-> count + 1]
    ELSE [ok |-> TRUE, delay |-> jinterval, count |-> count + 1]

\* Generic interval ticker driven by one of these change functions: the call
\* of the change function; continue = false closes the stream, otherwise the
\* timer is set to the delay.
DeadlinedChange ==
    /\ kind \in DeadlinedKinds
    /\ tpc = "change"
    /\ LET c == IF kind = "expmax" THEN ExpiringMaxChanger(now, tcount)
                ELSE DeadlinedChanger(now, tcount)
       IN /\ tcount' = c.count
          /\ IF c.ok
             THEN /\ tdelay' = c.delay
                  /\ wakeAt' = now + c.delay
                  /\ tpc' = "sleep"
                  /\ UNCHANGED tickClosed
             ELSE /\ tpc' = "exit"
                  /\ tickClosed' = TRUE
                  /\ UNCHANGED <<tdelay, wakeAt>>
    /\ UNCHANGED <<pollVars, ctxVars, tickCtxDone, kind, max, emitted, condVars,
                   now, jinterval, joffset, jdeadline, jnext, throttleVars>>

\* Generic interval ticker, timed: the timer fires, the pulse is offered.
DeadlinedSleep ==
    /\ kind \in DeadlinedKinds
    /\ tpc = "sleep"
    /\ now >= wakeAt
    /\ tpc' = "emit"
    /\ UNCHANGED <<pollVars, ctxVars, tickCtxDone, kind, max, tdelay, tcount,
                   tickClosed, emitted, condVars, otherVars>>

\* Generic interval ticker, timed: sleeping and offering race against the
\* scope.
DeadlinedCancelled ==
    /\ kind \in DeadlinedKinds
    /\ tpc \in {"sleep", "emit"}
    /\ tickCtxDone
    /\ tpc' = "exit"
    /\ UNCHANGED <<pollVars, ctxVars, tickCtxDone, kind, max, tdelay, tcount,
                   tickClosed, emitted, condVars, otherVars>>

\* A step of the ticker goroutine that takes no time is due.
DeadlinedUrgent ==
    \/ tpc = "change"
    \/ tpc = "sleep" /\ now >= wakeAt
    \/ tpc \in {"sleep", "emit"} /\ tickCtxDone

\* Time passes: while the condition is being checked, and while Poll waits
\* for a ticker whose timer has not fired yet.
DeadlinedTick ==
    /\ kind \in DeadlinedKinds
    /\ ~DeadlinedUrgent
    /\ ~PollUrgent
    /\ now < MaxTimeout + MaxInterval
    /\ now' = now + 1
    /\ UNCHANGED <<pollVars, ctxVars, tickCtxDone, tickerVars, emitted,
                   condVars, jitterVars, throttleVars>>

\* ------------------------------------------------ convenience functions

\* The ticker kinds the convenience functions make.
WithKinds == {"interval", "max", "deadline", "expiring", "jitter"}

\* What the ticker holds that the constructor of kind k makes at time t from
\* its arguments: MakeIntervalTicker(interval), MakeMaxIntervalsTicker(
\* interval, n), MakeDeadlinedIntervalTicker(interval, bound),
\* MakeExpiringIntervalTicker(interval, bound) and MakeJitteringTicker(
\* interval, offset, bound).
Made(k, t, interval, offset, bound, n) ==
    [max |-> IF k = "max" THEN n ELSE 0,
     jinterval |-> IF k = "jitter" THEN SanitizeInterval(interval, offset)
                   ELSE interval,
     joffset |-> IF k = "jitter" THEN SanitizeOffset(offset) ELSE 0,
     jdeadline |-> IF k = "deadline" THEN bound
                   ELSE IF k \in {"expiring", "jitter"}
                   THEN ExpiringDeadline(t, bound)
                   ELSE 0,
     jnext |-> IF k = "jitter" THEN t ELSE 0]

\* The caller makes the ticker of kind k from the arguments that jinterval,
\* joffset, jdeadline and max hold, to hand it to Poll.
MakeTicker(k) ==
    /\ pc = "off"
    /\ kind = "none"
    /\ pc' = "idle"
    /\ kind' = k
    /\ LET m == Made(k, now, jinterval, joffset, jdeadline, max) IN
         /\ max' = m.max
         /\ jinterval' = m.jinterval
         /\ joffset' = m.joffset
         /\ jdeadline' = m.jdeadline
         /\ jnext' = m.jnext
    /\ UNCHANGED <<result, cause, branch, ctxVars, tickCtxDone, tpc, tdelay,
                   tcount, tickClosed, emitted, condVars, now, wakeAt,
                   throttleVars>>

\* return Poll(ctx, ticker, condition) inside a convenience function, the
\* ticker being the one the constructor of kind k makes from the arguments
\* given: Poll up to ticker(tickCtx).
PollMade(k, interval, offset, bound, n) ==
    /\ pc = "off"
    /\ kind = "none"
    /\ pc' = "select"
    /\ kind' = k
    /\ tpc' = "change"
    /\ LET m == Made(k, now, interval, offset, bound, n) IN
         /\ max' = m.max
         /\ jinterval' = m.jinterval
         /\ joffset' = m.joffset
         /\ jdeadline' = m.jdeadline
         /\ jnext' = m.jnext
    /\ UNCHANGED <<result, cause, branch, ctxVars, tickCtxDone, tdelay, tcount,
                   tickClosed, emitted, condVars, now, wakeAt, throttleVars>>

\* WithInterval(ctx, interval, condition)
WithInterval == PollMade("interval", jinterval, 0, 0, 0)

\* WithMaxIntervals(ctx, interval, max, condition)
WithMaxIntervals == PollMade("max", jinterval, 0, 0, max)

\* WithDeadline(ctx, interval, deadline, condition)
WithDeadline == PollMade("deadline", jinterval, 0, jdeadline, 0)

\* WithTimeout(ctx, interval, timeout, condition)
WithTimeout == PollMade("expiring", jinterval, 0, jdeadline, 0)

\* WithJitter leaving the offset out of the ticker it makes.
WithJitter_NoOffset == PollMade("jitter", jinterval, 0, jdeadline, 0)

\* WithJitter(ctx, interval, offset, timeout, condition)
WithJitter == PollMade("jitter", jinterval, joffset, jdeadline, 0)

\* ----------------------------------------------------------------- context

\* The caller cancels ctx, or its deadline passes.
CtxCancel ==
    /\ ~ctxDone
    /\ ctxDone' = TRUE
    /\ ctxAt' = pc
    /\ \E e \in {"context canceled", "context deadline exceeded"} : ctxErr' = e
    /\ UNCHANGED otherVars
    /\ UNCHANGED <<pollVars, tickCtxDone, tickerVars, emitted, condVars>>

\* -------------------------------------------------------------------- Poll

\* Poll without its deferred cancel(): the scope of the ticker stays alive.
PollReturn_NoCancel(r, c) ==
    /\ pc' = "done"
    /\ result' = r
    /\ cause' = c
    /\ UNCHANGED tickCtxDone

\* return r with the %v argument c; the deferred cancel() runs on the way out.
PollReturn(r, c) ==
    /\ pc' = "done"
    /\ result' = r
    /\ cause' = c
    /\ tickCtxDone' = TRUE

\* Poll deriving the scope of the ticker from ctx: under a ctx that is done
\* the scope is done from the start.
PollStart_Derived ==
    /\ pc = "idle"
    /\ pc' = "select"
    /\ tpc' = TickerStart
    /\ tickCtxDone' = ctxDone
    /\ UNCHANGED otherVars
    /\ UNCHANGED <<result, cause, branch, ctxVars, kind, max,
                   tdelay, tcount, tickClosed, emitted, condVars>>

\* tickCtx, cancel := context.WithCancel(context.Background());
\* tickc := ticker(tickCtx)
PollStart ==
    /\ pc = "idle"
    /\ pc' = "select"
    /\ tpc' = TickerStart
    /\ UNCHANGED otherVars
    /\ UNCHANGED <<result, cause, branch, ctxVars, tickCtxDone, kind, max,
                   tdelay, tcount, tickClosed, emitted, condVars>>

\* The context-done case dropping ctx.Err() from the error it returns.
PollCtxDone_DropErr ==
    /\ pc = "select"
    /\ ctxDone
    /\ branch' = "ctx"
    /\ pc' = "done"
    /\ result' = ErrCancelled
    /\ cause' = "nil"
    /\ tickCtxDone' = TRUE
    /\ UNCHANGED otherVars
    /\ UNCHANGED <<ctxVars, tickerVars, emitted, condVars>>

\* The context-done case cutting into a condition check that is running.
PollCtxDone_Preempt ==
    /\ pc \in {"select", "checking"}
    /\ ctxDone
    /\ branch' = "ctx"
    /\ pc' = "done"
    /\ result' = ErrCancelled
    /\ cause' = ctxErr
    /\ tickCtxDone' = TRUE
    /\ UNCHANGED otherVars
    /\ UNCHANGED <<ctxVars, tickerVars, emitted, condVars>>

\* A select that looks at the tick case first: ctx.Done() is taken only when
\* no pulse is on offer.
PollCtxDone_TickFirst ==
    /\ pc = "select"
    /\ ctxDone
    /\ tpc # "emit"
    /\ branch' = "ctx"
    /\ PollReturn(ErrCancelled, ctxErr)
    /\ UNCHANGED otherVars
    /\ UNCHANGED <<ctxVars, tickerVars, emitted, condVars>>

\* case <-ctx.Done()
PollCtxDone ==
    /\ pc = "select"
    /\ ctxDone
    /\ branch' = "ctx"
    /\ PollReturn(ErrCancelled, ctxErr)
    /\ UNCHANGED otherVars
    /\ UNCHANGED <<ctxVars, tickerVars, emitted, condVars>>

\* The tick case without the test of open: a close counts as a pulse.
PollTickClosed_IgnoreOpen ==
    /\ pc = "select"
    /\ tickClosed
    /\ branch' = "closed"
    /\ pc' = "checking"
    /\ started' = started + 1
    /\ checked' = Append(checked, emitted)
    /\ UNCHANGED otherVars
    /\ UNCHANGED <<result, cause, ctxVars, tickCtxDone, tickerVars, emitted, calls,
                   pulses>>

\* The closed stream reported with the text of the cancellation.
PollTickClosed_AsCancelled ==
    /\ pc = "select"
    /\ tickClosed
    /\ branch' = "closed"
    /\ pc' = "done"
    /\ result' = ErrCancelled
    /\ cause' = "nil"
    /\ tickCtxDone' = TRUE
    /\ UNCHANGED otherVars
    /\ UNCHANGED <<ctxVars, tickerVars, emitted, condVars>>

\* case _, open := <-tickc with open = false
PollTickClosed ==
    /\ pc = "select"
    /\ tickClosed
    /\ branch' = "closed"
    /\ PollReturn(ErrExceeded, "nil")
    /\ UNCHANGED otherVars
    /\ UNCHANGED <<ctxVars, tickerVars, emitted, condVars>>

\* The tick case starting a check while the previous one still runs.
PollTick_Overlap ==
    /\ pc \in {"select", "checking"}
    /\ tpc = "emit"
    /\ ~tickClosed
    /\ branch' = "tick"
    /\ pc' = "checking"
    /\ tpc' = IF kind = "user" THEN "sent" ELSE "change"
    /\ emitted' = emitted + 1
    /\ started' = started + 1
    /\ checked' = Append(checked, emitted + 1)
    /\ pulses' = Append(pulses, now)
    /\ UNCHANGED otherVars
    /\ UNCHANGED <<result, cause, ctxVars, tickCtxDone, kind, max, tdelay,
                   tcount, tickClosed, calls>>

\* The tick case letting the first pulse go by without a check.
PollTick_SkipFirst ==
    /\ pc = "select"
    /\ tpc = "emit"
    /\ ~tickClosed
    /\ branch' = "tick"
    /\ tpc' = TickerSent
    /\ emitted' = emitted + 1
    /\ pulses' = Append(pulses, now)
    /\ IF emitted = 0
       THEN UNCHANGED <<pc, started, checked>>
       ELSE /\ pc' = "checking"
            /\ started' = started + 1
            /\ checked' = Append(checked, emitted + 1)
    /\ UNCHANGED otherVars
    /\ UNCHANGED <<result, cause, ctxVars, tickCtxDone, kind, max, tdelay,
                   tcount, tickClosed, calls>>

\* case _, open := <-tickc with open = true: the ticker's send and Poll's
\* receive meet, and Poll calls check(condition).
PollTick ==
    /\ pc = "select"
    /\ tpc = "emit"
    /\ ~tickClosed
    /\ branch' = "tick"
    /\ pc' = "checking"
    /\ tpc' = TickerSent
    /\ emitted' = emitted + 1
    /\ started' = started + 1
    /\ checked' = Append(checked, emitted + 1)
    /\ pulses' = Append(pulses, now)
    /\ UNCHANGED otherVars
    /\ UNCHANGED <<result, cause, ctxVars, tickCtxDone, kind, max, tdelay,
                   tcount, tickClosed, calls>>

\* check without its deferred recover(): the panic unwinds into Poll.
check_NoRecover(o) ==
    CASE o = "false_nil" -> [ok |-> FALSE, err |-> "nil"]
      [] o = "true_nil"  -> [ok |-> TRUE, err |-> "nil"]
      [] o = "false_err" -> [ok |-> FALSE, err |-> "condition error"]
      [] o = "true_err"  -> [ok |-> TRUE, err |-> "condition error"]
      [] o = "panic"     -> [ok |-> FALSE, err |-> Unwound]

\* check: runs the condition, a recovered panic becomes (false, error).
check(o) ==
    CASE o = "false_nil" -> [ok |-> FALSE, err |-> "nil"]
      [] o = "true_nil"  -> [ok |-> TRUE, err |-> "nil"]
      [] o = "false_err" -> [ok |-> FALSE, err |-> "condition error"]
      [] o = "true_err"  -> [ok |-> TRUE, err |-> "condition error"]
      [] o = "panic"     -> [ok |-> FALSE, err |-> ErrPanic]

\* The tick case looping on after a successful check.
PollChecked_NoStop(r) ==
    IF r.err = Unwound
    THEN PollReturn(Unwound, "nil")
    ELSE IF r.err # "nil"
    THEN PollReturn(ErrCondition, r.err)
    ELSE /\ pc' = "select"
         /\ UNCHANGED <<result, cause, tickCtxDone>>

\* The tick case testing ok before err.
PollChecked_OkFirst(r) ==
    IF r.err = Unwound
    THEN PollReturn(Unwound, "nil")
    ELSE IF r.ok
    THEN PollReturn("nil", "nil")
    ELSE IF r.err # "nil"
    THEN PollReturn(ErrCondition, r.err)
    ELSE /\ pc' = "select"
         /\ UNCHANGED <<result, cause, tickCtxDone>>

\* The rest of the tick case once check has come back with r.
PollChecked(r) ==
    IF r.err = Unwound
    THEN PollReturn(Unwound, "nil")
    ELSE IF r.err # "nil"
    THEN PollReturn(ErrCondition, r.err)
    ELSE IF r.ok
    THEN PollReturn("nil", "nil")
    ELSE /\ pc' = "select"
         /\ UNCHANGED <<result, cause, tickCtxDone>>

\* The condition invocation comes back with outcome o.
CondReturn ==
    /\ pc = "checking"
    /\ \E o \in Outcomes :
         /\ calls' = Append(calls, o)
         /\ PollChecked(check(o))
    /\ UNCHANGED otherVars
    /\ UNCHANGED <<branch, ctxVars, tickerVars, emitted, started, checked, pulses>>

\* ------------------------------------------------ a stream that never ends

\* Poll on a ticker in the manner of the user-defined one, long before the
\* last of its pulses: whenever its goroutine stands at its select a pulse is
\* on offer, and it ends only when its scope is cancelled.  Of the pulses and
\* the checks the first MaxTicks are recorded.

\* The top of the for loop: the goroutine gets to its select and offers the
\* next pulse.
StreamLoop ==
    /\ kind = "stream"
    /\ tpc = "change"
    /\ tpc' = "emit"
    /\ UNCHANGED otherVars
    /\ UNCHANGED <<pollVars, ctxVars, tickCtxDone, kind, max, tdelay, tcount,
                   tickClosed, emitted, condVars>>

\* case <-ctx.Done() of the ticker goroutine returns, the deferred close runs.
StreamCancelled ==
    /\ kind = "stream"
    /\ tpc = "emit"
    /\ tickCtxDone
    /\ tpc' = "exit"
    /\ tickClosed' = TRUE
    /\ UNCHANGED otherVars
    /\ UNCHANGED <<pollVars, ctxVars, tickCtxDone, kind, max, tdelay, tcount,
                   emitted, condVars>>

\* case _, open := <-tickc with open = true, on the stream: the send and the
\* receive meet, and Poll calls check(condition).
StreamTick ==
    /\ kind = "stream"
    /\ pc = "select"
    /\ tpc = "emit"
    /\ ~tickClosed
    /\ branch' = "tick"
    /\ pc' = "checking"
    /\ tpc' = TickerSent
    /\ IF emitted < MaxTicks
       THEN /\ emitted' = emitted + 1
            /\ started' = started + 1
            /\ checked' = Append(checked, emitted + 1)
            /\ pulses' = Append(pulses, now)
       ELSE UNCHANGED <<emitted, started, checked, pulses>>
    /\ UNCHANGED otherVars
    /\ UNCHANGED <<result, cause, ctxVars, tickCtxDone, kind, max, tdelay,
                   tcount, tickClosed, calls>>

\* The condition invocation comes back with outcome o, on the stream.
StreamCondReturn ==
    /\ kind = "stream"
    /\ pc = "checking"
    /\ \E o \in Outcomes :
         /\ calls' = IF Len(calls) < started THEN Append(calls, o) ELSE calls
         /\ PollChecked(check(o))
    /\ UNCHANGED otherVars
    /\ UNCHANGED <<branch, ctxVars, tickerVars, emitted, started, checked, pulses>>

\* ---------------------------------------------------------------- throttle

Callers == 1..NCallers
Variants == {"limiter", "load", "batch"}
Limits == {0, 1, InfLimit}
\* The deadline of the context of a call made now, when that context is not
\* done: none, or a later instant.
Deadlines == {NoDeadline} \cup ((now + 1)..MaxClock)

\* sync.RWMutex with nobody holding it.
NoLock == [w |-> 0, r |-> {}]

\* A Process call that has not been made yet.  Of a call of the limiter
\* throttle, act is the instant its token is granted for (timeToAct), res the
\* tokens of its reservation while it waits.  err is the error as it came up,
\* wrap the text Process has put in front of it with %w ("": none).
NoCall ==
    [pc |-> "idle", cancelled |-> FALSE, short |-> FALSE, n |-> 0, ran |-> 0,
     err |-> "none", wrap |-> "", pos |-> -1, act |-> 0, res |-> 0]

\* The callers are numbered in the order of their calls.
Turn(c) ==
    /\ call[c].pc = "idle"
    /\ IF c = 1 THEN TRUE ELSE call[c - 1].pc # "idle"

\* ctx.Done() of caller c is closed: ctx was cancelled or its deadline has come.
CtxDone(c) == call[c].cancelled

\* The context of c is cancelled or runs out, before the call or while the
\* call waits.
ThrottleCtxCancel(c) ==
    /\ Turn(c) \/ call[c].pc = "wait"
    /\ ~call[c].cancelled
    /\ call' = [call EXCEPT ![c].cancelled = TRUE]
    /\ UNCHANGED <<throttleState, now>>
    /\ UNCHANGED pollSide

\* Time passes for the throttle and its callers.
Pass ==
    /\ variant \in Variants
    /\ now < MaxClock
    /\ now' = now + 1
    /\ UNCHANGED <<throttleState, call>>
    /\ UNCHANGED pollSide

\* Process returns e to caller c, who passed n events, without running any of
\* them; w tells that the call got as far as the deadline and found it before
\* now plus the wait.
Rejected(c, n, w, e) ==
    call' = [call EXCEPT ![c] = [NoCall EXCEPT !.pc = "done", !.n = n, !.short = w, !.err = e]]

\* fmt.Errorf("wait for throttle limiter: %w", err): Process of the limiter
\* throttle returns the error e of limiter.Wait wrapped, no task is run.
WaitWrap == "wait for throttle limiter"
WaitFailed(c, w, e) ==
    call' = [call EXCEPT ![c] = [NoCall EXCEPT !.pc = "done", !.n = 1, !.short = w,
                                               !.err = e, !.wrap = WaitWrap]]

\* Caller c, in an admitted call of n events of which k have been started.
Running(c, k) == [NoCall EXCEPT !.pc = "run", !.n = call[c].n, !.ran = k]

\* Process returns e to caller c after an admitted call.
Returned(c, k, e, p) ==
    [NoCall EXCEPT !.pc = "done", !.ran = k, !.err = e, !.pos = p]

\* -- rate.Limiter, as limiter.Wait(ctx) uses it (limit 1 is one token a clock unit)

tokensFromDuration(d) == d * limit
durationFromTokens(k) == k \div limit

\* advance letting the tokens grow beyond the burst.
advance_NoCap(t) ==
    LET lst == IF t < last THEN t ELSE last
    IN tokens + tokensFromDuration(t - lst)

\* Limiter.advance: the tokens at time t, the bucket holds burst at most.
advance(t) ==
    LET lst == IF t < last THEN t ELSE last
        tk == tokens + tokensFromDuration(t - lst)
    IN IF tk > burst THEN burst ELSE tk

\* The wait needed to accumulate n tokens at the configured rate.
RequiredWait(n) ==
    IF limit = InfLimit \/ advance(now) >= n THEN 0
    ELSE IF limit = 0 THEN InfDuration
    ELSE durationFromTokens(n - advance(now))

\* The deadline d comes before now plus the wait for n tokens.
Short(d, n) == d # NoDeadline /\ d < now + RequiredWait(n)

\* reserveN granting the reservation whatever the wait limit is.
reserveN_NoWaitLimit(t, n, maxFutureReserve) ==
    IF limit = InfLimit
    THEN [ok |-> TRUE, tokens |-> n, timeToAct |-> t, burst |-> burst,
          ltokens |-> tokens, last |-> last, lastEvent |-> lastEvent]
    ELSE IF limit = 0
    THEN IF burst >= n
         THEN [ok |-> TRUE, tokens |-> burst - n, timeToAct |-> t, burst |-> burst - n,
               ltokens |-> tokens, last |-> last, lastEvent |-> lastEvent]
         ELSE [ok |-> FALSE, tokens |-> burst, timeToAct |-> t, burst |-> burst,
               ltokens |-> tokens, last |-> last, lastEvent |-> lastEvent]
    ELSE LET tk == advance(t) - n
             waitDuration == IF tk < 0 THEN durationFromTokens(-tk) ELSE 0
         IN [ok |-> TRUE, tokens |-> n, timeToAct |-> t + waitDuration,
             burst |-> burst, ltokens |-> tk, last |-> t,
             lastEvent |-> t + waitDuration]

\* reserveN without the case of the infinite limit.
reserveN_FiniteOnly(t, n, maxFutureReserve) ==
    IF limit = 0
    THEN IF burst >= n
         THEN [ok |-> TRUE, tokens |-> burst - n, timeToAct |-> t, burst |-> burst - n,
               ltokens |-> tokens, last |-> last, lastEvent |-> lastEvent]
         ELSE [ok |-> FALSE, tokens |-> burst, timeToAct |-> t, burst |-> burst,
               ltokens |-> tokens, last |-> last, lastEvent |-> lastEvent]
    ELSE LET tk == advance(t) - n
             waitDuration == IF tk < 0 THEN durationFromTokens(-tk) ELSE 0
         IN IF n <= burst /\ waitDuration <= maxFutureReserve
            THEN [ok |-> TRUE, tokens |-> n, timeToAct |-> t + waitDuration,
                  burst |-> burst, ltokens |-> tk, last |-> t,
                  lastEvent |-> t + waitDuration]
            ELSE [ok |-> FALSE, tokens |-> 0, timeToAct |-> t, burst |-> burst,
                  ltokens |-> tokens, last |-> last, lastEvent |-> lastEvent]

\* Limiter.reserveN: the reservation and the limiter's fields after it.
reserveN(t, n, maxFutureReserve) ==
    IF limit = InfLimit
    THEN [ok |-> TRUE, tokens |-> n, timeToAct |-> t, burst |-> burst,
          ltokens |-> tokens, last |-> last, lastEvent |-> lastEvent]
    ELSE IF limit = 0
    THEN IF burst >= n
         THEN [ok |-> TRUE, tokens |-> burst - n, timeToAct |-> t, burst |-> burst - n,
               ltokens |-> tokens, last |-> last, lastEvent |-> lastEvent]
         ELSE [ok |-> FALSE, tokens |-> burst, timeToAct |-> t, burst |-> burst,
               ltokens |-> tokens, last |-> last, lastEvent |-> lastEvent]
    ELSE LET tk == advance(t) - n
             waitDuration == IF tk < 0 THEN durationFromTokens(-tk) ELSE 0
         IN IF n <= burst /\ waitDuration <= maxFutureReserve
            THEN [ok |-> TRUE, tokens |-> n, timeToAct |-> t + waitDuration,
                  burst |-> burst, ltokens |-> tk, last |-> t,
                  lastEvent |-> t + waitDuration]
            ELSE [ok |-> FALSE, tokens |-> 0, timeToAct |-> t, burst |-> burst,
                  ltokens |-> tokens, last |-> last, lastEvent |-> lastEvent]

\* Reservation.CancelAt: gives back the tokens of the reservation of c that no
\* later reservation was built on.
CancelAt(c, t) ==
    LET r == call[c]
        restoreTokens == r.res - tokensFromDuration(lastEvent - r.act)
        tk == advance(t) + restoreTokens
        prevEvent == r.act + durationFromTokens(-r.res)
    IN IF limit = InfLimit \/ r.res = 0 \/ r.act < t \/ restoreTokens <= 0
       THEN [ltokens |-> tokens, last |-> last, lastEvent |-> lastEvent]
       ELSE [ltokens |-> IF tk > burst THEN burst ELSE tk, last |-> t,
             lastEvent |-> IF r.act = lastEvent /\ prevEvent >= t
                           THEN prevEvent ELSE lastEvent]

\* Process going to the reservation without looking at ctx.
LimiterCall_NoCtxCheck(c) ==
    /\ variant = "limiter"
    /\ Turn(c)
    /\ \E d \in Deadlines :
         LET waitLimit == IF d = NoDeadline THEN InfDuration ELSE d - now
             r == reserveN(now, 1, waitLimit)
             w == Short(d, 1)
         IN IF 1 > burst /\ limit # InfLimit
            THEN WaitFailed(c, FALSE, ErrBurst) /\ UNCHANGED limiterVars
            ELSE IF ~r.ok
            THEN WaitFailed(c, w, ErrDeadline) /\ UNCHANGED limiterVars
            ELSE /\ burst' = r.burst
                 /\ tokens' = r.ltokens
                 /\ last' = r.last
                 /\ lastEvent' = r.lastEvent
                 /\ call' = [call EXCEPT ![c] =
                       IF r.timeToAct > now
                       THEN [@ EXCEPT !.pc = "wait", !.n = 1, !.short = w,
                                      !.res = r.tokens, !.act = r.timeToAct]
                       ELSE [NoCall EXCEPT !.pc = "run", !.n = 1, !.ran = 1,
                                           !.act = r.timeToAct]]
    /\ UNCHANGED <<variant, limit, cfgBurst, currentLoad, slots, mu, now>>
    /\ UNCHANGED pollSide

\* Process with a burst check that makes no exception for the infinite limit.
LimiterCall_BurstFirst(c) ==
    /\ variant = "limiter"
    /\ Turn(c)
    /\ \E d \in Deadlines :
         LET waitLimit == IF d = NoDeadline THEN InfDuration ELSE d - now
             r == reserveN(now, 1, waitLimit)
             w == Short(d, 1)
         IN IF 1 > burst
            THEN WaitFailed(c, FALSE, ErrBurst) /\ UNCHANGED limiterVars
            ELSE IF call[c].cancelled
            THEN WaitFailed(c, FALSE, ErrCtx) /\ UNCHANGED limiterVars
            ELSE IF ~r.ok
            THEN WaitFailed(c, w, ErrDeadline) /\ UNCHANGED limiterVars
            ELSE /\ burst' = r.burst
                 /\ tokens' = r.ltokens
                 /\ last' = r.last
                 /\ lastEvent' = r.lastEvent
                 /\ call' = [call EXCEPT ![c] =
                       IF r.timeToAct > now
                       THEN [@ EXCEPT !.pc = "wait", !.n = 1, !.short = w,
                                      !.res = r.tokens, !.act = r.timeToAct]
                       ELSE [NoCall EXCEPT !.pc = "run", !.n = 1, !.ran = 1,
                                           !.act = r.timeToAct]]
    /\ UNCHANGED <<variant, limit, cfgBurst, currentLoad, slots, mu, now>>
    /\ UNCHANGED pollSide

\* Process looking at ctx before it looks at the burst.
LimiterCall_CtxFirst(c) ==
    /\ variant = "limiter"
    /\ Turn(c)
    /\ \E d \in Deadlines :
         LET waitLimit == IF d = NoDeadline THEN InfDuration ELSE d - now
             r == reserveN(now, 1, waitLimit)
             w == Short(d, 1)
         IN IF call[c].cancelled
            THEN WaitFailed(c, FALSE, ErrCtx) /\ UNCHANGED limiterVars
            ELSE IF 1 > burst /\ limit # InfLimit
            THEN WaitFailed(c, FALSE, ErrBurst) /\ UNCHANGED limiterVars
            ELSE IF ~r.ok
            THEN WaitFailed(c, w, ErrDeadline) /\ UNCHANGED limiterVars
            ELSE /\ burst' = r.burst
                 /\ tokens' = r.ltokens
                 /\ last' = r.last
                 /\ lastEvent' = r.lastEvent
                 /\ call' = [call EXCEPT ![c] =
                       IF r.timeToAct > now
                       THEN [@ EXCEPT !.pc = "wait", !.n = 1, !.short = w,
                                      !.res = r.tokens, !.act = r.timeToAct]
                       ELSE [NoCall EXCEPT !.pc = "run", !.n = 1, !.ran = 1,
                                           !.act = r.timeToAct]]
    /\ UNCHANGED <<variant, limit, cfgBurst, currentLoad, slots, mu, now>>
    /\ UNCHANGED pollSide

\* Throttle.Process of the limiter throttle up to the return of limiter.Wait:
\* burst check, ctx check, reservation; the task starts when no wait is needed.
LimiterCall(c) ==
    /\ variant = "limiter"
    /\ Turn(c)
    /\ \E d \in Deadlines :
         LET waitLimit == IF d = NoDeadline THEN InfDuration ELSE d - now
             r == reserveN(now, 1, waitLimit)
             w == Short(d, 1)
         IN IF 1 > burst /\ limit # InfLimit
            THEN WaitFailed(c, FALSE, ErrBurst) /\ UNCHANGED limiterVars
            ELSE IF call[c].cancelled
            THEN WaitFailed(c, FALSE, ErrCtx) /\ UNCHANGED limiterVars
            ELSE IF ~r.ok
            THEN WaitFailed(c, w, ErrDeadline) /\ UNCHANGED limiterVars
            ELSE /\ burst' = r.burst
                 /\ tokens' = r.ltokens
                 /\ last' = r.last
                 /\ lastEvent' = r.lastEvent
                 /\ call' = [call EXCEPT ![c] =
                       IF r.timeToAct > now
                       THEN [@ EXCEPT !.pc = "wait", !.n = 1, !.short = w,
                                      !.res = r.tokens, !.act = r.timeToAct]
                       ELSE [NoCall EXCEPT !.pc = "run", !.n = 1, !.ran = 1,
                                           !.act = r.timeToAct]]
    /\ UNCHANGED <<variant, limit, cfgBurst, currentLoad, slots, mu, now>>
    /\ UNCHANGED pollSide

\* limiter.Wait: the timer of the reservation fires, Wait returns nil and the
\* task starts.
LimiterTimer(c) ==
    /\ variant = "limiter"
    /\ call[c].pc = "wait"
    /\ now >= call[c].act
    /\ call' = [call EXCEPT ![c] = [Running(c, 1) EXCEPT !.act = call[c].act]]
    /\ UNCHANGED <<throttleState, now>>
    /\ UNCHANGED pollSide

\* limiter.Wait: ctx.Done() wins the select, the reservation is cancelled and
\* Process returns the wrapped ctx.Err().
LimiterWaitCancelled(c) ==
    /\ variant = "limiter"
    /\ call[c].pc = "wait"
    /\ CtxDone(c)
    /\ LET s == CancelAt(c, now) IN
         /\ tokens' = s.ltokens
         /\ last' = s.last
         /\ lastEvent' = s.lastEvent
    /\ call' = [call EXCEPT ![c] = [Returned(c, 0, ErrCtx, -1) EXCEPT !.wrap = WaitWrap]]
    /\ UNCHANGED <<variant, limit, burst, cfgBurst, currentLoad, slots, mu, now>>
    /\ UNCHANGED pollSide

\* Process wrapping the error of the task as it wraps the error of the wait.
TaskReturn_Wrapped(c) ==
    /\ variant = "limiter"
    /\ call[c].pc = "run"
    /\ \E e \in {"nil", ErrTask} :
         call' = [call EXCEPT ![c] =
             [Returned(c, 1, e, -1) EXCEPT !.act = call[c].act,
                                           !.wrap = IF e = "nil" THEN "" ELSE WaitWrap]]
    /\ UNCHANGED <<throttleState, now>>
    /\ UNCHANGED pollSide

\* return task(): the task comes back with nil or with its error.
TaskReturn(c) ==
    /\ variant = "limiter"
    /\ call[c].pc = "run"
    /\ \E e \in {"nil", ErrTask} :
         call' = [call EXCEPT ![c] = [Returned(c, 1, e, -1) EXCEPT !.act = call[c].act]]
    /\ UNCHANGED <<throttleState, now>>
    /\ UNCHANGED pollSide

\* -- the load tracking throttle

\* NewThrottle(limit): limitedLoad, a limit below 1 is 1.
limitedLoad == IF limit < 1 THEN 1 ELSE limit

\* isAllowed: the condition the waiting polls.
isAllowed == currentLoad < limitedLoad

\* Process of the load tracking throttle up to the start of the polling.
ProcessLoad(c) ==
    /\ variant = "load"
    /\ Turn(c)
    /\ IF call[c].cancelled
       THEN Rejected(c, 1, FALSE, ErrCtx)
       ELSE call' = [call EXCEPT ![c] = [@ EXCEPT !.pc = "wait", !.n = 1]]
    /\ UNCHANGED <<throttleState, now>>
    /\ UNCHANGED pollSide

\* isAllowed, t.mu.RLock(): a pulse has come and the check begins; the read
\* lock is there while no writer holds mu.
isAllowedRLock(c) ==
    /\ variant = "load"
    /\ call[c].pc = "wait"
    /\ mu.w = 0
    /\ mu' = [mu EXCEPT !.r = @ \cup {c}]
    /\ call' = [call EXCEPT ![c].pc = "reading"]
    /\ UNCHANGED <<variant, limit, burst, cfgBurst, limiterState, currentLoad, slots, now>>
    /\ UNCHANGED pollSide

\* isAllowed reads the two loads, t.mu.RUnlock(), and returns; on true
\* WithJitter(ctx, ..., t.isAllowed) returns nil, on false the polling goes on.
PollAllowed(c) ==
    /\ variant = "load"
    /\ call[c].pc = "reading"
    /\ mu' = [mu EXCEPT !.r = @ \ {c}]
    /\ call' = [call EXCEPT ![c] =
          IF isAllowed THEN [NoCall EXCEPT !.pc = "allowed", !.n = 1]
          ELSE [@ EXCEPT !.pc = "wait"]]
    /\ UNCHANGED <<variant, limit, burst, cfgBurst, limiterState, currentLoad, slots, now>>
    /\ UNCHANGED pollSide

\* WithJitter(ctx, ..., t.isAllowed) returns an error: ctx is done, or the
\* ticker's timeout, which is the deadline of ctx, is over.
PollExpired(c) ==
    /\ variant = "load"
    /\ call[c].pc = "wait"
    /\ CtxDone(c)
    /\ call' = [call EXCEPT ![c] = Returned(c, 0, ErrCtx, -1)]
    /\ UNCHANGED <<throttleState, now>>
    /\ UNCHANGED pollSide

\* process, before processing: t.mu.Lock() is called.  No other writer is
\* there, and from here on new readers are held off.
processLock(c) ==
    /\ variant = "load"
    /\ call[c].pc = "allowed"
    /\ mu.w = 0
    /\ mu' = [mu EXCEPT !.w = c]
    /\ call' = [call EXCEPT ![c].pc = "before"]
    /\ UNCHANGED <<variant, limit, burst, cfgBurst, limiterState, currentLoad, slots, now>>
    /\ UNCHANGED pollSide

\* process keeping mu while the event runs (the unlock deferred to the return).
processBefore_KeepLock(c) ==
    /\ variant = "load"
    /\ call[c].pc = "before"
    /\ mu.r = {}
    /\ currentLoad' = currentLoad + 1
    /\ call' = [call EXCEPT ![c] = Running(c, 1)]
    /\ UNCHANGED <<variant, limit, burst, cfgBurst, limiterState, slots, mu, now>>
    /\ UNCHANGED pollSide

\* process adding the load of the event only while the load is below the limit.
processBefore_Clamped(c) ==
    /\ variant = "load"
    /\ call[c].pc = "before"
    /\ mu.r = {}
    /\ currentLoad' = IF isAllowed THEN currentLoad + 1 ELSE currentLoad
    /\ mu' = NoLock
    /\ call' = [call EXCEPT ![c] = Running(c, 1)]
    /\ UNCHANGED <<variant, limit, burst, cfgBurst, limiterState, slots, now>>
    /\ UNCHANGED pollSide

\* process, before processing: the readers have left and Lock() returns, the
\* load goes up under the lock, t.mu.Unlock(), the event starts.
processBefore(c) ==
    /\ variant = "load"
    /\ call[c].pc = "before"
    /\ mu.r = {}
    /\ currentLoad' = currentLoad + 1
    /\ mu' = NoLock
    /\ call' = [call EXCEPT ![c] = Running(c, 1)]
    /\ UNCHANGED <<variant, limit, burst, cfgBurst, limiterState, slots, now>>
    /\ UNCHANGED pollSide

\* process, after processing: the event has come back with e and the slow
\* down sleep is over, t.mu.Lock() is called.
processAfterLock(c) ==
    /\ variant = "load"
    /\ call[c].pc = "run"
    /\ mu.w = 0
    /\ mu' = [mu EXCEPT !.w = c]
    /\ \E e \in {"nil", ErrTask} :
         call' = [call EXCEPT ![c] = [Returned(c, 1, e, -1) EXCEPT !.pc = "after"]]
    /\ UNCHANGED <<variant, limit, burst, cfgBurst, limiterState, currentLoad, slots, now>>
    /\ UNCHANGED pollSide

\* process returning the error of the event before the load goes down.
processAfter_LeakOnError(c) ==
    /\ variant = "load"
    /\ call[c].pc = "after"
    /\ mu.r = {}
    /\ currentLoad' = IF call[c].err = "nil" THEN currentLoad - 1 ELSE currentLoad
    /\ mu' = NoLock
    /\ call' = [call EXCEPT ![c].pc = "done"]
    /\ UNCHANGED <<variant, limit, burst, cfgBurst, limiterState, slots, now>>
    /\ UNCHANGED pollSide

\* process, after processing: the readers have left and Lock() returns, the
\* load goes down under the lock, t.mu.Unlock(), the error of the event is
\* returned.
processAfter(c) ==
    /\ variant = "load"
    /\ call[c].pc = "after"
    /\ mu.r = {}
    /\ currentLoad' = currentLoad - 1
    /\ mu' = NoLock
    /\ call' = [call EXCEPT ![c].pc = "done"]
    /\ UNCHANGED <<variant, limit, burst, cfgBurst, limiterState, slots, now>>
    /\ UNCHANGED pollSide

\* -- the batch throttle: Process(ctx, events...)

\* Throttle.Limit() and Throttle.Burst(), the accessors of the batch throttle.
Limit == limit
Burst == burst

\* The bucket holds the tokens and the free slots for a batch of n.
BatchFits(n) ==
    /\ limit = InfLimit \/ advance(now) >= n
    /\ slots + n <= burst

\* Process without step 1.
BatchCall_NoBurstCheck(c) ==
    /\ variant = "batch"
    /\ Turn(c)
    /\ \E n \in 1..MaxBatch, d \in Deadlines :
         IF call[c].cancelled
         THEN Rejected(c, n, FALSE, ErrAlreadyDone)
         ELSE IF Short(d, n)
         THEN Rejected(c, n, TRUE, ErrDeadline)
         ELSE call' = [call EXCEPT ![c] = [@ EXCEPT !.pc = "wait", !.n = n]]
    /\ UNCHANGED <<throttleState, now>>
    /\ UNCHANGED pollSide

\* Process(ctx, events...), steps 1 to 3: the three immediate rejections,
\* otherwise the call blocks for capacity.
BatchCall(c) ==
    /\ variant = "batch"
    /\ Turn(c)
    /\ \E n \in 1..MaxBatch, d \in Deadlines :
         IF n > burst
         THEN Rejected(c, n, FALSE, ErrBurst)
         ELSE IF call[c].cancelled
         THEN Rejected(c, n, FALSE, ErrAlreadyDone)
         ELSE IF Short(d, n)
         THEN Rejected(c, n, TRUE, ErrDeadline)
         ELSE call' = [call EXCEPT ![c] = [@ EXCEPT !.pc = "wait", !.n = n]]
    /\ UNCHANGED <<throttleState, now>>
    /\ UNCHANGED pollSide

\* The admission taking the batch out of the burst.
BatchAdmit_TakesBurst(c) ==
    /\ variant = "batch"
    /\ call[c].pc = "wait"
    /\ BatchFits(call[c].n)
    /\ IF limit = InfLimit
       THEN UNCHANGED <<tokens, last>>
       ELSE tokens' = advance(now) - call[c].n /\ last' = now
    /\ slots' = slots + call[c].n
    /\ burst' = burst - call[c].n
    /\ call' = [call EXCEPT ![c] = Running(c, 0)]
    /\ UNCHANGED <<variant, limit, cfgBurst, lastEvent, currentLoad, mu, now>>
    /\ UNCHANGED pollSide

\* Step 4 and the admission of step 5: the whole batch fits, its tokens and
\* slots are consumed.
BatchAdmit(c) ==
    /\ variant = "batch"
    /\ call[c].pc = "wait"
    /\ BatchFits(call[c].n)
    /\ IF limit = InfLimit
       THEN UNCHANGED <<tokens, last>>
       ELSE tokens' = advance(now) - call[c].n /\ last' = now
    /\ slots' = slots + call[c].n
    /\ call' = [call EXCEPT ![c] = Running(c, 0)]
    /\ UNCHANGED <<variant, limit, burst, cfgBurst, lastEvent, currentLoad, mu, now>>
    /\ UNCHANGED pollSide

\* Step 4: ctx is done while the call is blocked.
BatchWaitCancelled(c) ==
    /\ variant = "batch"
    /\ call[c].pc = "wait"
    /\ CtxDone(c)
    /\ call' = [call EXCEPT ![c] = Returned(c, 0, ErrWaitCancelled, -1)]
    /\ UNCHANGED <<throttleState, now>>
    /\ UNCHANGED pollSide

\* Step 5 noting the error of an event and going on with the batch.
BatchEvent_GoOn(c) ==
    /\ variant = "batch"
    /\ call[c].pc = "run"
    /\ \E e \in {"nil", ErrTask} :
         IF e # "nil" /\ call[c].ran + 1 = call[c].n
         THEN /\ call' = [call EXCEPT ![c] =
                    Returned(c, call[c].ran + 1, ErrEvent, call[c].ran)]
              /\ slots' = slots - call[c].n
         ELSE IF call[c].ran + 1 = call[c].n
         THEN /\ call' = [call EXCEPT ![c] = Returned(c, call[c].ran + 1, "nil", -1)]
              /\ slots' = slots - call[c].n
         ELSE /\ call' = [call EXCEPT ![c] =
                    [@ EXCEPT !.ran = @ + 1,
                              !.err = IF e # "nil" THEN ErrEvent ELSE @,
                              !.pos = IF e # "nil" THEN call[c].ran ELSE @]]
              /\ UNCHANGED slots
    /\ UNCHANGED <<variant, limit, burst, cfgBurst, limiterState, currentLoad, mu, now>>
    /\ UNCHANGED pollSide

\* Step 5: the next event of the admitted batch runs and comes back with e;
\* an error or the last event ends the batch and releases its slots.
BatchEvent(c) ==
    /\ variant = "batch"
    /\ call[c].pc = "run"
    /\ \E e \in {"nil", ErrTask} :
         IF e # "nil"
         THEN /\ call' = [call EXCEPT ![c] =
                    Returned(c, call[c].ran + 1, ErrEvent, call[c].ran)]
              /\ slots' = slots - call[c].n
         ELSE IF call[c].ran + 1 = call[c].n
         THEN /\ call' = [call EXCEPT ![c] = Returned(c, call[c].ran + 1, "nil", -1)]
              /\ slots' = slots - call[c].n
         ELSE /\ call' = [call EXCEPT ![c].ran = @ + 1]
              /\ UNCHANGED slots
    /\ UNCHANGED <<variant, limit, burst, cfgBurst, limiterState, currentLoad, mu, now>>
    /\ UNCHANGED pollSide

\* ----------------------------------------------------------- specification

\* No throttle is in play.
ThrottleOff ==
    /\ variant = "none"
    /\ limit = 0
    /\ cfgBurst = 0
    /\ burst = 0
    /\ tokens = 0
    /\ last = 0
    /\ lastEvent = 0
    /\ currentLoad = 0
    /\ slots = 0
    /\ mu = NoLock
    /\ call = [c \in Callers |-> NoCall]

\* No Poll is in play.
PollOff ==
    /\ pc = "off"
    /\ result = "none"
    /\ cause = "nil"
    /\ branch = "none"
    /\ ctxDone = FALSE
    /\ ctxErr = "nil"
    /\ ctxAt = "never"
    /\ tickCtxDone = FALSE
    /\ kind = "none"
    /\ max = 0
    /\ tpc = "off"
    /\ tdelay = 0
    /\ tcount = 0
    /\ tickClosed = FALSE
    /\ emitted = 0
    /\ started = 0
    /\ calls = <<>>
    /\ checked = <<>>
    /\ pulses = <<>>

\* No jitter ticker is in play.
JitterOff ==
    /\ jinterval = 0
    /\ joffset = 0
    /\ jdeadline = 0
    /\ jnext = 0
    /\ wakeAt = 0

Init ==
    /\ pc = "idle"
    /\ result = "none"
    /\ cause = "nil"
    /\ branch = "none"
    /\ ctxDone = FALSE
    /\ ctxErr = "nil"
    /\ ctxAt = "never"
    /\ tickCtxDone = FALSE
    /\ kind \in Kinds
    /\ max \in IF kind = "user" THEN 1..MaxN
               ELSE IF kind = "max" THEN 0..MaxN ELSE {0}
    /\ tpc = "off"
    /\ tdelay = 0
    /\ tcount = 0
    /\ tickClosed = FALSE
    /\ emitted = 0
    /\ started = 0
    /\ calls = <<>>
    /\ checked = <<>>
    /\ pulses = <<>>
    /\ now = 0
    /\ JitterOff
    /\ ThrottleOff

Next ==
    \/ PollStart
    \/ PollCtxDone
    \/ PollTickClosed
    \/ PollTick
    \/ CondReturn
    \/ CtxCancel
    \/ TickerChange
    \/ TickerSleep
    \/ TickerCancelled
    \/ UserCounted
    \/ UserCancelled

Spec == Init /\ [][Next]_vars

\* The condition comes back from every check, and Poll and the ticker
\* goroutine are scheduled.
SpecFair ==
    /\ Spec
    /\ WF_vars(PollStart)
    /\ WF_vars(PollCtxDone)
    /\ WF_vars(PollTickClosed)
    /\ WF_vars(PollTick)
    /\ WF_vars(CondReturn)
    /\ WF_vars(TickerChange)
    /\ WF_vars(TickerSleep)
    /\ WF_vars(TickerCancelled)
    /\ WF_vars(UserCounted)
    /\ WF_vars(UserCancelled)

\* Poll on a jitter ticker: MakeJitteringTicker(interval, offset, timeout) is
\* called at time 0 and Poll right after it.
InitJitter ==
    /\ pc = "idle"
    /\ result = "none"
    /\ cause = "nil"
    /\ branch = "none"
    /\ ctxDone = FALSE
    /\ ctxErr = "nil"
    /\ ctxAt = "never"
    /\ tickCtxDone = FALSE
    /\ kind = "jitter"
    /\ max = 0
    /\ tpc = "off"
    /\ tdelay = 0
    /\ tcount = 0
    /\ tickClosed = FALSE
    /\ emitted = 0
    /\ started = 0
    /\ calls = <<>>
    /\ checked = <<>>
    /\ pulses = <<>>
    /\ now = 0
    /\ \E interval \in 0..MaxInterval, offset \in -1..MaxOffset :
         /\ jinterval = SanitizeInterval(interval, offset)
         /\ joffset = SanitizeOffset(offset)
    /\ jdeadline \in -1..MaxTimeout
    /\ jnext = 0
    /\ wakeAt = 0
    /\ ThrottleOff

NextJitter ==
    \/ PollStart
    \/ PollCtxDone
    \/ PollTickClosed
    \/ PollTick
    \/ CondReturn
    \/ CtxCancel
    \/ JitterChange
    \/ JitterSleep
    \/ JitterCancelled
    \/ Tick

SpecJitter == InitJitter /\ [][NextJitter]_vars

\* The condition comes back from every check, Poll and the ticker goroutine
\* are scheduled, and the clock goes on.
SpecJitterFair ==
    /\ SpecJitter
    /\ WF_vars(PollStart)
    /\ WF_vars(PollCtxDone)
    /\ WF_vars(PollTickClosed)
    /\ WF_vars(PollTick)
    /\ WF_vars(CondReturn)
    /\ WF_vars(JitterChange)
    /\ WF_vars(JitterSleep)
    /\ WF_vars(JitterCancelled)
    /\ WF_vars(Tick)

\* MakeJitteringTicker on any interval and offset a Duration can hold, with
\* a short timeout or the longest one, and the calls of the change function
\* it returns.
InitMake ==
    /\ PollOff
    /\ now = 0
    /\ jinterval \in Durations
    /\ joffset \in Durations
    /\ jdeadline \in (-1..MaxTimeout) \cup {MaxDuration}
    /\ jnext = 0
    /\ wakeAt = 0
    /\ ThrottleOff

NextMake ==
    \/ MakeJitteringTicker
    \/ changer
    \/ MakePass

SpecMake == InitMake /\ [][NextMake]_vars

\* A caller with an interval, an offset, a deadline or timeout and a count at
\* hand either makes a ticker and calls Poll with it, or calls the convenience
\* function; both at time 0.
InitWith ==
    /\ pc = "off"
    /\ result = "none"
    /\ cause = "nil"
    /\ branch = "none"
    /\ ctxDone = FALSE
    /\ ctxErr = "nil"
    /\ ctxAt = "never"
    /\ tickCtxDone = FALSE
    /\ kind = "none"
    /\ max \in 0..MaxN
    /\ tpc = "off"
    /\ tdelay = 0
    /\ tcount = 0
    /\ tickClosed = FALSE
    /\ emitted = 0
    /\ started = 0
    /\ calls = <<>>
    /\ checked = <<>>
    /\ pulses = <<>>
    /\ now = 0
    /\ jinterval \in 1..MaxInterval
    /\ joffset \in -1..MaxOffset
    /\ jdeadline \in -1..MaxTimeout
    /\ jnext = 0
    /\ wakeAt = 0
    /\ ThrottleOff

NextWith ==
    \/ \E k \in WithKinds : MakeTicker(k)
    \/ WithInterval
    \/ WithMaxIntervals
    \/ WithDeadline
    \/ WithTimeout
    \/ WithJitter
    \/ PollStart
    \/ PollCtxDone
    \/ PollTickClosed
    \/ PollTick
    \/ CondReturn
    \/ CtxCancel
    \/ TickerChange
    \/ TickerSleep
    \/ TickerCancelled
    \/ DeadlinedChange
    \/ DeadlinedSleep
    \/ DeadlinedCancelled
    \/ DeadlinedTick
    \/ JitterChange
    \/ JitterSleep
    \/ JitterCancelled
    \/ Tick

SpecWith == InitWith /\ [][NextWith]_vars

\* Poll on a deadline-bounded, a timeout-bounded or a combined ticker: the
\* ticker is made at time 0 and Poll is called right after it.
InitDeadlined ==
    /\ pc = "idle"
    /\ result = "none"
    /\ cause = "nil"
    /\ branch = "none"
    /\ ctxDone = FALSE
    /\ ctxErr = "nil"
    /\ ctxAt = "never"
    /\ tickCtxDone = FALSE
    /\ kind \in DeadlinedKinds
    /\ max \in IF kind = "expmax" THEN 0..MaxN ELSE {0}
    /\ tpc = "off"
    /\ tdelay = 0
    /\ tcount = 0
    /\ tickClosed = FALSE
    /\ emitted = 0
    /\ started = 0
    /\ calls = <<>>
    /\ checked = <<>>
    /\ pulses = <<>>
    /\ now = 0
    /\ jinterval \in 1..MaxInterval
    /\ joffset = 0
    /\ \E d \in -1..MaxTimeout :
         jdeadline = IF kind = "deadline" THEN d ELSE ExpiringDeadline(now, d)
    /\ jnext = 0
    /\ wakeAt = 0
    /\ ThrottleOff

NextDeadlined ==
    \/ PollStart
    \/ PollCtxDone
    \/ PollTickClosed
    \/ PollTick
    \/ CondReturn
    \/ CtxCancel
    \/ DeadlinedChange
    \/ DeadlinedSleep
    \/ DeadlinedCancelled
    \/ DeadlinedTick

SpecDeadlined == InitDeadlined /\ [][NextDeadlined]_vars

\* The condition comes back from every check, Poll and the ticker goroutine
\* are scheduled, and the clock goes on.
SpecDeadlinedFair ==
    /\ SpecDeadlined
    /\ WF_vars(PollStart)
    /\ WF_vars(PollCtxDone)
    /\ WF_vars(PollTickClosed)
    /\ WF_vars(PollTick)
    /\ WF_vars(CondReturn)
    /\ WF_vars(DeadlinedChange)
    /\ WF_vars(DeadlinedSleep)
    /\ WF_vars(DeadlinedCancelled)
    /\ WF_vars(DeadlinedTick)

\* Poll on a stream that never ends.
InitStream ==
    /\ pc = "idle"
    /\ result = "none"
    /\ cause = "nil"
    /\ branch = "none"
    /\ ctxDone = FALSE
    /\ ctxErr = "nil"
    /\ ctxAt = "never"
    /\ tickCtxDone = FALSE
    /\ kind = "stream"
    /\ max = 0
    /\ tpc = "off"
    /\ tdelay = 0
    /\ tcount = 0
    /\ tickClosed = FALSE
    /\ emitted = 0
    /\ started = 0
    /\ calls = <<>>
    /\ checked = <<>>
    /\ pulses = <<>>
    /\ now = 0
    /\ JitterOff
    /\ ThrottleOff

NextStream ==
    \/ PollStart
    \/ PollCtxDone
    \/ StreamTick
    \/ StreamCondReturn
    \/ CtxCancel
    \/ StreamLoop
    \/ StreamCancelled

SpecStream == InitStream /\ [][NextStream]_vars

\* The condition comes back from every check and the goroutines are
\* scheduled; a select with several cases ready takes one of them by a
\* uniform pseudo-random choice, so a case that is ready again and again is
\* taken in the end.
SpecStreamFair ==
    /\ SpecStream
    /\ WF_vars(PollStart)
    /\ SF_vars(PollCtxDone)
    /\ WF_vars(StreamTick)
    /\ WF_vars(StreamCondReturn)
    /\ WF_vars(StreamLoop)
    /\ WF_vars(StreamCancelled)

\* A throttle of kind v with its callers, none of which has called Process
\* yet.
InitThrottle(v) ==
    /\ PollOff
    /\ now = 0
    /\ JitterOff
    /\ variant = v
    /\ limit \in IF v = "batch" THEN {1, InfLimit} ELSE Limits
    /\ cfgBurst \in IF v = "load" THEN {0} ELSE 0..MaxBurst
    /\ burst = cfgBurst
    /\ tokens = cfgBurst
    /\ last = 0
    /\ lastEvent = 0
    /\ currentLoad = 0
    /\ slots = 0
    /\ mu = NoLock
    /\ call = [c \in Callers |-> NoCall]

\* NewThrottle(limit, burst) on rate.Limiter and concurrent Process calls.
InitLimiter == InitThrottle("limiter")

NextLimiter ==
    \/ \E c \in Callers : ThrottleCtxCancel(c)
    \/ Pass
    \/ \E c \in Callers : LimiterCall(c)
    \/ \E c \in Callers : LimiterTimer(c)
    \/ \E c \in Callers : LimiterWaitCancelled(c)
    \/ \E c \in Callers : TaskReturn(c)

SpecLimiter == InitLimiter /\ [][NextLimiter]_vars

\* NewThrottle(limit) of the load tracking throttle and concurrent Process
\* calls.
InitLoad == InitThrottle("load")

NextLoad ==
    \/ \E c \in Callers : ThrottleCtxCancel(c)
    \/ \E c \in Callers : ProcessLoad(c)
    \/ \E c \in Callers : isAllowedRLock(c)
    \/ \E c \in Callers : PollAllowed(c)
    \/ \E c \in Callers : PollExpired(c)
    \/ \E c \in Callers : processLock(c)
    \/ \E c \in Callers : processBefore(c)
    \/ \E c \in Callers : processAfterLock(c)
    \/ \E c \in Callers : processAfter(c)

SpecLoad == InitLoad /\ [][NextLoad]_vars

\* Every caller is scheduled and every event comes back; a goroutine that
\* goes for mu gets it once mu stays free.
SpecLoadFair ==
    /\ SpecLoad
    /\ \A c \in Callers :
         /\ WF_vars(isAllowedRLock(c))
         /\ WF_vars(PollAllowed(c))
         /\ WF_vars(processLock(c))
         /\ WF_vars(processBefore(c))
         /\ WF_vars(processAfterLock(c))
         /\ WF_vars(processAfter(c))

\* Throttle(rate, burst) with batches and concurrent Process calls.
InitBatch == InitThrottle("batch")

NextBatch ==
    \/ \E c \in Callers : ThrottleCtxCancel(c)
    \/ Pass
    \/ \E c \in Callers : BatchCall(c)
    \/ \E c \in Callers : BatchAdmit(c)
    \/ \E c \in Callers : BatchWaitCancelled(c)
    \/ \E c \in Callers : BatchEvent(c)

SpecBatch == InitBatch /\ [][NextBatch]_vars

\* ------------------------------------------------------------------ claims

\* The first k-1 returned invocations said (false, nil).
AllFalseBefore(k) == \A i \in 1..(k - 1) : calls[i] = "false_nil"

\* Every returned invocation said (false, nil).
AlwaysFalse == \A i \in 1..Len(calls) : calls[i] = "false_nil"

\* C1: when the condition says (false, nil) on its first k-1 invocations and
\* (true, nil) on the k-th, Poll has returned nil after exactly k invocations
\* and the condition is not invoked again.
C1_FirstSuccessReturnsNil ==
    \A k \in 1..Len(calls) :
        (calls[k] = "true_nil" /\ AllFalseBefore(k)) =>
            /\ pc = "done"
            /\ result = "nil"
            /\ Len(calls) = k
            /\ started = k

C1_Witness ==
    /\ pc = "done"
    /\ result = "nil"
    /\ ~ctxDone
    /\ calls = <<"false_nil", "false_nil", "true_nil">>

\* C2: when the stream is closed, the context is not done and Poll is
\* waiting, the step Poll takes returns the Exceeded error and invokes the
\* condition no further time.
C2_ClosedStreamReturnsExceeded ==
    [][(pc = "select" /\ tickClosed /\ ~ctxDone /\ pc' # pc) =>
          /\ pc' = "done"
          /\ result' = ErrExceeded
          /\ started' = started
          /\ calls' = calls]_vars

C2_Witness ==
    /\ pc = "done"
    /\ branch = "closed"
    /\ result = ErrExceeded
    /\ ~ctxDone
    /\ Len(calls) >= 1

\* C3 as stated: once the context is done and Poll has not returned yet,
\* Poll returns the Cancelled error.
C3_Original ==
    [][(ctxDone /\ pc # "done" /\ pc' = "done") => result' = ErrCancelled]_vars

\* C3, amended: Poll returns the Cancelled error exactly when its select
\* takes the context-done case, the error carries ctx.Err(), and with a done
\* context and neither a pulse nor a close ready that case is the only one
\* Poll can take; for every ticker strategy.
C3_Cancelled ==
    /\ []((pc = "done" /\ branch = "ctx") =>
             (result = ErrCancelled /\ ctxDone /\ cause = ctxErr /\ cause # "nil"))
    /\ [](result = ErrCancelled => (pc = "done" /\ branch = "ctx"))
    /\ [][(pc = "select" /\ ctxDone /\ tpc # "emit" /\ ~tickClosed /\ pc' # pc) =>
             (pc' = "done" /\ result' = ErrCancelled /\ cause' = ctxErr)]_vars

C3_Witness ==
    /\ pc = "done"
    /\ result = ErrCancelled
    /\ cause = "context deadline exceeded"
    /\ kind = "max"
    /\ Len(calls) >= 1

\* C4: an invocation that returns a non-nil error is the last one: Poll has
\* returned the condition error, whatever boolean came with the error.
C4_ConditionErrorEndsPoll ==
    \A i \in 1..Len(calls) :
        calls[i] \in {"false_err", "true_err"} =>
            /\ i = Len(calls)
            /\ started = i
            /\ pc = "done"
            /\ result = ErrCondition
            /\ cause = "condition error"

C4_Witness ==
    /\ pc = "done"
    /\ result = ErrCondition
    /\ calls = <<"false_nil", "true_err">>

\* C5: a panic of the condition never leaves Poll; it ends Poll with an error
\* that carries the panic, the panicking invocation is the last one, and so
\* there is one panic at most.
C5_PanicContained ==
    /\ result # Unwound
    /\ \A i \in 1..Len(calls) :
          calls[i] = "panic" =>
              /\ i = Len(calls)
              /\ started = i
              /\ pc = "done"
              /\ result = ErrCondition
              /\ cause = ErrPanic

C5_Witness ==
    /\ pc = "done"
    /\ cause = ErrPanic
    /\ calls = <<"false_nil", "false_nil", "panic">>

\* C6: at most one invocation of the condition is running, it runs exactly
\* while Poll is in its check, and the i-th invocation belongs to the i-th
\* pulse Poll received.
C6_SequentialChecks ==
    /\ started - Len(calls) \in {0, 1}
    /\ (started - Len(calls) = 1) <=> (pc = "checking")
    /\ started <= emitted
    /\ Len(checked) = started
    /\ \A i \in 1..Len(checked) : checked[i] = i

C6_Witness ==
    /\ pc = "checking"
    /\ started = 2
    /\ Len(calls) = 1
    /\ tpc = "emit"

Terminal == {"nil", ErrCondition, ErrCancelled, ErrExceeded}

\* C7: Poll moves only Waiting -> Checking on a pulse, Checking -> Waiting,
\* Success or Failure, Waiting -> Cancelled on a done context and Waiting ->
\* Exceeded on a closed stream; it has a result exactly when it has ended,
\* and after that neither its state nor its result changes and the condition
\* is not invoked.
C7_StateMachine ==
    /\ []((pc = "done") <=> (result \in Terminal))
    /\ [](result \in Terminal \cup {"none"})
    /\ [][\/ pc' = pc /\ result' = result /\ cause' = cause /\ started' = started
          \/ pc = "idle" /\ pc' = "select" /\ result' = "none"
          \/ pc = "select" /\ pc' = "checking" /\ emitted' = emitted + 1
          \/ pc = "checking" /\ pc' = "select"
          \/ pc = "checking" /\ pc' = "done" /\ result' \in {"nil", ErrCondition}
          \/ pc = "select" /\ pc' = "done" /\ result' = ErrCancelled /\ ctxDone
          \/ pc = "select" /\ pc' = "done" /\ result' = ErrExceeded /\ tickClosed]_vars
    /\ [][pc = "done" => (calls' = calls /\ branch' = branch)]_vars

C7_Witness ==
    /\ pc = "done"
    /\ result = "nil"
    /\ Len(calls) = 2
    /\ ctxDone
    /\ tpc = "exit"

\* C8 as stated: once the context has become done while Poll is waiting, no
\* invocation of the condition starts, and the step Poll takes returns the
\* Cancelled error.
C8_NoCheckAfterCtxDone ==
    [][(pc = "select" /\ ctxDone /\ ctxAt = "select") =>
          /\ started' = started
          /\ pc' # pc => result' = ErrCancelled]_vars

\* C9: when Poll has returned, with whatever outcome, the scope of the ticker
\* is cancelled, and no pulse is handed over afterwards.
C9_TickerStopped ==
    /\ [](pc = "done" => tickCtxDone)
    /\ [][pc = "done" => emitted' = emitted]_vars

C9_Witness ==
    /\ pc = "done"
    /\ tickCtxDone
    /\ cause = ErrPanic
    /\ tpc = "emit"

\* C10: with a bounded-count ticker of maximum N, a condition that always
\* says (false, nil) and a context that is not done, the condition is never
\* invoked more than N times, and when Poll has ended it has made exactly N
\* checks and returned the Exceeded error.
C10_MaxIntervalsExceeded ==
    (kind = "max" /\ AlwaysFalse /\ ~ctxDone) =>
        /\ started <= max
        /\ pc = "done" => (result = ErrExceeded /\ Len(calls) = max /\ started = max)

C10_Witness ==
    /\ kind = "max"
    /\ max = 3
    /\ AlwaysFalse
    /\ ~ctxDone
    /\ pc = "done"
    /\ result = ErrExceeded
    /\ Len(calls) = 3

\* C11 as stated: on a jitter ticker the gap between two consecutive pulses
\* lies in [offset, offset + interval), and no pulse comes after the deadline.
C11_JitterGaps ==
    /\ \A i \in 2..Len(pulses) :
          /\ pulses[i] - pulses[i - 1] >= joffset
          /\ pulses[i] - pulses[i - 1] < joffset + jinterval
    /\ \A i \in 1..Len(pulses) : pulses[i] <= jdeadline

\* C12: with a context that is never done and a condition that never does
\* anything but say (false, nil), Poll on a jitter ticker eventually returns
\* the Exceeded error.
C12_JitterExceeds ==
    <>(ctxDone \/ ~AlwaysFalse \/ (pc = "done" /\ result = ErrExceeded /\ tickClosed))

C12_Witness ==
    /\ kind = "jitter"
    /\ pc = "done"
    /\ result = ErrExceeded
    /\ ~ctxDone
    /\ AlwaysFalse
    /\ Len(calls) >= 2
    /\ now > jdeadline

\* The admitted tasks that are executing, as the concurrencyCounter of the
\* tests counts them.
Executing == Cardinality({c \in Callers : call[c].pc = "run"})

\* Caller c makes its Process call in this step.
Calls(c) == call[c].pc = "idle" /\ call'[c].pc # "idle"

\* C13: for a throttle with burst B the number of concurrently executing
\* admitted events is at most B in every reachable state, whatever the number
\* of callers and the rate, the infinite rate included.
C13_BurstBoundsConcurrency == Executing <= cfgBurst

\* C14: a Process call with a batch of more events than the burst fails at
\* once with the burst error: it does not block, runs no event of the batch
\* and leaves the tokens and slots of the throttle as they are.
C14_OversizedBatchRejected ==
    [][\A c \in Callers :
         (Calls(c) /\ call'[c].n > burst)
           => /\ call'[c].pc = "done"
              /\ call'[c].err = ErrBurst
              /\ call'[c].ran = 0
              /\ UNCHANGED throttleState]_vars

\* A batch of two was rejected by a throttle of burst 1 while another caller's
\* batch was admitted and nothing of the rejected batch ran.
C14_Witness ==
    /\ variant = "batch"
    /\ cfgBurst = 1
    /\ \E c, o \in Callers :
         /\ call[c].pc = "done" /\ call[c].n = 2
         /\ call[c].err = ErrBurst /\ call[c].ran = 0
         /\ call[o].pc = "run"

\* C15: a Process call under a context that is already done returns an error
\* in the same step and runs no event, also when the throttle has capacity.
C15_DoneContextRejected ==
    [][\A c \in Callers :
         (Calls(c) /\ call[c].cancelled)
           => /\ call'[c].pc = "done"
              /\ call'[c].err \notin {"none", "nil"}
              /\ call'[c].ran = 0
              /\ UNCHANGED throttleState]_vars

\* The first caller came with a done context to a limiter throttle that had a
\* token for it, and got the context's error.
C15_Witness ==
    /\ variant = "limiter"
    /\ limit = 1
    /\ advance(now) >= 1
    /\ call[1].pc = "done" /\ call[1].err = ErrCtx /\ call[1].ran = 0
    /\ call[2].pc = "idle"

\* C16: a Process call whose context is not done and whose deadline comes
\* before now plus the wait for its tokens is rejected in the same step with
\* the deadline error; it does not block until the deadline and runs no event.
C16_InfeasibleDeadlineRejected ==
    [][\A c \in Callers :
         (Calls(c) /\ ~call[c].cancelled /\ call'[c].n <= burst /\ call'[c].short)
           => /\ call'[c].pc = "done"
              /\ call'[c].err = ErrDeadline
              /\ call'[c].ran = 0
              /\ UNCHANGED throttleState]_vars

\* A call was rejected for its deadline while an earlier caller still waits
\* for its token.
C16_Witness ==
    /\ variant = "limiter"
    /\ \E c, o \in Callers :
         /\ call[c].pc = "done" /\ call[c].short
         /\ call[c].err = ErrDeadline /\ call[c].ran = 0
         /\ call[o].pc = "wait"

\* The tokens the bucket holds now, from the limiter's fields after the step.
TokensAfter ==
    LET tk == tokens' + tokensFromDuration(now - last')
    IN IF tk > burst THEN burst ELSE tk

\* The tokens the bucket would hold now with the reservation of c undone.
TokensWithout(c) ==
    LET tk == advance(now) + call[c].res
    IN IF tk > burst THEN burst ELSE tk

\* C17: when the context of a waiting Process call is cancelled or times out,
\* the call returns the context error, runs no event and admits nothing: the
\* capacity the other callers see is what it would be without this call.
C17_CancelledWaitTakesNothing ==
    [][\A c \in Callers :
         (call[c].pc = "wait" /\ call'[c].pc = "done")
           => /\ call'[c].err \in {ErrCtx, ErrWaitCancelled}
              /\ call'[c].ran = 0
              /\ TokensAfter = TokensWithout(c)
              /\ UNCHANGED <<currentLoad, slots>>]_vars

\* C18: the events of an admitted batch run in order, one at a time and are not
\* rolled back; when event N returns an error no later event of the batch
\* starts and Process returns the event error with position N.
C18_BatchStopsAtFailingEvent ==
    [][\A c \in Callers :
         /\ call'[c].ran \in {call[c].ran, call[c].ran + 1}
         /\ call[c].err = ErrEvent => call'[c] = call[c]
         /\ call'[c].err = ErrEvent
              => /\ call'[c].pc = "done"
                 /\ call'[c].ran >= 1
                 /\ call'[c].pos = call'[c].ran - 1
         /\ (call[c].pc = "run" /\ call'[c].pc = "done" /\ call'[c].err = "nil")
              => call'[c].ran = call[c].n]_vars

\* The second event of a batch of two failed after the first had run, and
\* Process reported position 1; another batch failed at its only event, at
\* position 0.
C18_Witness ==
    /\ variant = "batch"
    /\ \E c, o \in Callers :
         /\ call[c].pc = "done" /\ call[c].ran = 2
         /\ call[c].err = ErrEvent /\ call[c].pos = 1
         /\ call[o].pc = "done" /\ call[o].ran = 1
         /\ call[o].err = ErrEvent /\ call[o].pos = 0

\* Every Process call that was made has returned.
AllReturned ==
    /\ \E c \in Callers : call[c].pc = "done"
    /\ \A c \in Callers : call[c].pc \in {"idle", "done"}

\* The events whose load is counted: begun, and their load not taken back yet.
Loaded == Cardinality({c \in Callers : call[c].pc \in {"run", "after"}})

\* Caller c has been admitted: its polling found capacity.
Admitted(c) == call[c].pc \in {"allowed", "run"} \/ call[c].ran = 1

\* C19: the load an admitted event adds is taken back when the event is over,
\* whether it succeeded or failed: once every call has returned the load is
\* 0; and a waiting call whose context is never done is admitted in the end.
C19_SlotsReleased ==
    /\ [](currentLoad = Loaded)
    /\ [](AllReturned => currentLoad = 0)
    /\ \A c \in Callers :
         (call[c].pc = "wait") ~> (CtxDone(c) \/ Admitted(c))

\* All callers have returned from admitted calls, one with the event's error
\* and one with nil, and the load is back at 0.
C19_Witness ==
    /\ variant = "load"
    /\ currentLoad = 0
    /\ \A c \in Callers : call[c].pc = "done" /\ call[c].ran = 1
    /\ \E c, o \in Callers : call[c].err = ErrTask /\ call[o].err = "nil"

C21_InfiniteNoBurstRunsAll ==
    [][(variant = "limiter" /\ limit = InfLimit /\ cfgBurst = 0)
         => \A c \in Callers :
              /\ (Calls(c) /\ ~call[c].cancelled)
                   => (call'[c].pc = "run" /\ call'[c].ran = 1)
              /\ call'[c].pc # "wait"
              /\ call'[c].err \notin {ErrBurst, ErrDeadline}
              /\ (call[c].pc = "run" /\ call'[c].pc # "run")
                   => /\ call'[c].pc = "done"
                      /\ call'[c].ran = 1
                      /\ call'[c].err \in {"nil", ErrTask}]_vars

\* Under the infinite rate and burst 0 all callers were executing their tasks
\* at the same time.
C21_Witness ==
    /\ variant = "limiter"
    /\ limit = InfLimit
    /\ cfgBurst = 0
    /\ Executing = NCallers

\* C22: under limit 0 and burst 0 every Process call has returned the error
\* of the burst check and no task runs, at no time.
C22_NoLimitNoBurstRejectsAll ==
    (variant = "limiter" /\ limit = 0 /\ cfgBurst = 0)
      => /\ Executing = 0
         /\ \A c \in Callers :
              /\ call[c].pc \in {"idle", "done"}
              /\ call[c].pc = "done" => (call[c].err = ErrBurst /\ call[c].ran = 0)

\* Under limit 0 and burst 0 every caller has got the burst error.
C22_Witness ==
    /\ variant = "limiter"
    /\ limit = 0
    /\ cfgBurst = 0
    /\ \A c \in Callers :
         call[c].pc = "done" /\ call[c].err = ErrBurst /\ call[c].ran = 0

\* The calls whose token the limiter granted for an instant of s..e and whose
\* task was started.
AdmittedIn(s, e) ==
    Cardinality({c \in Callers : call[c].ran = 1 /\ call[c].act \in s..e})

\* C23: under a finite rate R and burst B at most B + R*t admissions fall
\* into a time span of length t; with burst 1 and rate 1 this puts two
\* admissions at least one clock unit (1/R) apart, k admissions k - 1 units.
C23_RateBound ==
    (variant = "limiter" /\ limit # InfLimit)
      => /\ \A s \in 0..now : \A e \in s..now :
              AdmittedIn(s, e) <= cfgBurst + limit * (e - s)
         /\ (cfgBurst = 1 /\ limit = 1)
              => \A c, o \in Callers :
                   (c < o /\ call[c].ran = 1 /\ call[o].ran = 1)
                     => call[o].act - call[c].act >= 1

\* Rate 1 and burst 1: the first caller was admitted at 0, the second at 1, and
\* the third waits for the token of instant 2.
C23_Witness ==
    /\ variant = "limiter"
    /\ limit = 1
    /\ cfgBurst = 1
    /\ call[1].ran = 1 /\ call[1].act = 0
    /\ call[2].ran = 1 /\ call[2].act = 1
    /\ call[3].pc = "wait" /\ call[3].act = 2

\* C24: Limit() and Burst() return the values the throttle was created with
\* in every reachable state: no step of a Process call, whether the call is
\* admitted, rejected, cancelled or failing, changes the rate or the burst.
C24_AccessorsFixed ==
    /\ [](Burst = cfgBurst)
    /\ [][Limit' = Limit /\ Burst' = Burst]_vars

\* A throttle of burst 1 has rejected a batch of two, has seen a waiting call
\* cancelled and an event fail, and still answers burst 1.
C24_Witness ==
    /\ variant = "batch"
    /\ Limit = 1
    /\ Burst = 1
    /\ cfgBurst = 1
    /\ \E a, b, c \in Callers :
         /\ call[a].pc = "done" /\ call[a].err = ErrBurst
         /\ call[b].pc = "done" /\ call[b].err = ErrWaitCancelled
         /\ call[c].pc = "done" /\ call[c].err = ErrEvent

\* The delay the k-th continuing call of mkChgTicker's change function
\* returns, and the number of its calls that continue.
ChgDelay(k) == Interval * 2^(k - 1)
RECURSIVE ChgCalls(_)
ChgCalls(in) ==
    LET c == ChgChanger(in, 0) IN IF c.ok THEN 1 + ChgCalls(c.delay) ELSE 0
ChgPulses == ChgCalls(0)

\* C25: the generic interval ticker hands zero to the first call of the change
\* function and to every later call the delay the call before returned, every
\* continuing call is followed by one pulse, and the first call that does not
\* continue closes the stream: with mkChgTicker the delays double from the
\* interval on, the stream closes after the last delay within a second, and
\* with a condition that always says (false, nil) and a context that is not
\* done Poll ends with Exceeded after that many checks.  The bounded-count
\* ticker has emitted one pulse for each of its continuing calls.
C25_GenericTicker ==
    /\ kind = "chg" =>
         /\ tpc = "off" => (tdelay = 0 /\ emitted = 0)
         /\ tpc = "change" =>
              tdelay = (IF emitted = 0 THEN 0 ELSE ChgDelay(emitted))
         /\ tpc \in {"sleep", "emit"} => tdelay = ChgDelay(emitted + 1)
         /\ emitted <= ChgPulses
         /\ tickClosed => (emitted = ChgPulses /\ tdelay = ChgDelay(ChgPulses))
         /\ (pc = "done" /\ result = ErrExceeded) =>
              (started = ChgPulses /\ Len(calls) = ChgPulses)
         /\ (pc = "done" /\ AlwaysFalse /\ ~ctxDone) => result = ErrExceeded
    /\ kind = "max" =>
         /\ tpc = "change" => emitted = tcount
         /\ tpc \in {"sleep", "emit"} => emitted = tcount - 1
         /\ tickClosed => (emitted = max /\ tcount = max + 1)

\* Poll on mkChgTicker has ended with Exceeded after the ticker closed the
\* stream, the delays having doubled up to the last one within a second.
C25_Witness ==
    /\ kind = "chg"
    /\ pc = "done"
    /\ result = ErrExceeded
    /\ ~ctxDone
    /\ AlwaysFalse
    /\ tickClosed
    /\ emitted = ChgPulses
    /\ tdelay * 2 > Second

\* C29: Poll neither drops nor duplicates a pulse: every pulse the ticker has
\* handed over has started one invocation of the condition, and when Poll has
\* ended with Exceeded under a context that is not done the condition has been
\* invoked once for each pulse the ticker emitted before it closed the stream;
\* for the user-defined ticker that is the count its goroutine has kept.
C29_NoPulseLostOrDoubled ==
    /\ started = emitted
    /\ Len(pulses) = emitted
    /\ (pc = "done" /\ result = ErrExceeded /\ ~ctxDone)
         => /\ Len(calls) = emitted
            /\ kind = "user" => (tcount = max /\ Len(calls) = tcount)

\* The user-defined ticker has counted its pulses up to the limit and closed,
\* and Poll has ended with Exceeded after as many checks.
C29_Witness ==
    /\ kind = "user"
    /\ max = MaxN
    /\ tcount = MaxN
    /\ pc = "done"
    /\ result = ErrExceeded
    /\ ~ctxDone
    /\ Len(calls) = MaxN
    /\ AlwaysFalse

\* C30: the scope handed to the ticker does not follow the caller's context:
\* it is not done as long as Poll has not returned, also when ctx is done
\* already, no step that ends ctx touches it, and the only step that ends it
\* is the one in which Poll returns.
C30_TickerScopeIndependent ==
    /\ [](pc # "done" => ~tickCtxDone)
    /\ [][ctxDone' # ctxDone => tickCtxDone' = tickCtxDone]_vars
    /\ [][tickCtxDone' # tickCtxDone
            => (pc # "done" /\ pc' = "done" /\ tickCtxDone')]_vars

\* ctx is done while Poll is in a check, and the ticker, its scope still alive,
\* offers the next pulse.
C30_Witness ==
    /\ ctxDone
    /\ pc = "checking"
    /\ ~tickCtxDone
    /\ tpc = "emit"
    /\ emitted >= 1

\* C28: a jitter ticker made with a timeout that is zero or negative hands
\* over no pulse, so the condition is not invoked once, and Poll under a
\* context that is not done returns the Exceeded error.
C28_NoTimeoutNoPulse ==
    /\ []((kind = "jitter" /\ jdeadline <= 0)
            => /\ emitted = 0
               /\ started = 0
               /\ (pc = "done" /\ ~ctxDone) => result = ErrExceeded)
    /\ <>(jdeadline > 0 \/ ctxDone \/ (pc = "done" /\ result = ErrExceeded))

\* Poll on a jitter ticker of timeout zero has ended with Exceeded, the first
\* call of the change function having closed the stream.
C28_Witness ==
    /\ kind = "jitter"
    /\ jdeadline = 0
    /\ joffset = 0
    /\ pc = "done"
    /\ result = ErrExceeded
    /\ ~ctxDone
    /\ tickClosed
    /\ started = 0
    /\ now = 0

Min(a, b) == IF a < b THEN a ELSE b

\* The intervals that fit before the deadline of a ticker made at time 0, and
\* the intervals that start before it.
IntervalsFitting == IF jdeadline < 0 THEN 0 ELSE jdeadline \div jinterval
IntervalsStarting ==
    IF jdeadline <= 0 THEN 0 ELSE (jdeadline + jinterval - 1) \div jinterval

\* Poll has received every pulse at the instant it was due.
OnTime == \A i \in 1..Len(pulses) : pulses[i] = i * jinterval

\* C26 as stated: the combined ticker never emits more than maxCount pulses
\* and no pulse once creation time + timeout has passed, and with a condition
\* that always says (false, nil) Poll returns Exceeded after min(maxCount,
\* intervals that fit before the timeout) checks.
C26_Original ==
    kind = "expmax" =>
        /\ emitted <= max
        /\ \A i \in 1..Len(pulses) : pulses[i] <= jdeadline
        /\ (pc = "done" /\ AlwaysFalse /\ ~ctxDone)
             => (result = ErrExceeded /\ Len(calls) = Min(max, IntervalsFitting))

\* C26, amended: the combined ticker stops on the limit that is hit first: it
\* never emits more than maxCount pulses and grants no interval once creation
\* time + timeout has come, so that a pulse is due one interval after that
\* instant at the latest; with a condition that always says (false, nil) and
\* a context that is not done Poll returns Exceeded, after min(maxCount,
\* intervals that start before the timeout) checks at most, and after exactly
\* that many when every pulse is received as it is due.
C26_CountOrTimeout ==
    /\ [](kind = "expmax" =>
            /\ emitted <= max
            /\ tpc \in {"sleep", "emit"}
                 => (tdelay = jinterval /\ wakeAt <= jdeadline + jinterval)
            /\ started <= Min(max, IntervalsStarting)
            /\ (pc = "done" /\ AlwaysFalse /\ ~ctxDone) => result = ErrExceeded
            /\ (pc = "done" /\ result = ErrExceeded /\ ~ctxDone /\ OnTime)
                 => Len(calls) = Min(max, IntervalsStarting))
    /\ <>(kind # "expmax" \/ ctxDone \/ ~AlwaysFalse
            \/ (pc = "done" /\ result = ErrExceeded))

\* The timeout was hit before the count: with interval 2, timeout 3 and
\* maxCount 3 Poll has ended with Exceeded after the pulses of 2 and of 4.
C26_Witness ==
    /\ kind = "expmax"
    /\ jinterval = 2
    /\ jdeadline = 3
    /\ max = 3
    /\ pc = "done"
    /\ result = ErrExceeded
    /\ ~ctxDone
    /\ pulses = <<2, 4>>

\* C27 as stated: the deadline-bounded and the timeout-bounded ticker emit no
\* pulse once the deadline has passed and close the stream after it, and with
\* a condition that always says (false, nil) Poll returns Exceeded.
C27_Original ==
    kind \in {"deadline", "expiring"} =>
        /\ \A i \in 1..Len(pulses) : pulses[i] <= jdeadline
        /\ tickClosed => now >= jdeadline
        /\ (pc = "done" /\ AlwaysFalse /\ ~ctxDone) => result = ErrExceeded

\* C27, amended: the deadline-bounded ticker, and the timeout-bounded ticker
\* with the deadline creation time + timeout, grant the fixed interval only
\* while the deadline has not come and close the stream at the first call of
\* the change function after that: consecutive pulses are an interval apart
\* at least, a pulse is due one interval after the deadline at the latest, and
\* with a condition that always says (false, nil) and a context that is never
\* done Poll returns Exceeded in the end.
C27_DeadlineBounded ==
    /\ [](kind \in {"deadline", "expiring"} =>
            /\ tpc \in {"sleep", "emit"}
                 => (tdelay = jinterval /\ wakeAt <= jdeadline + jinterval)
            /\ tickClosed => now >= jdeadline
            /\ \A i \in 2..Len(pulses) : pulses[i] - pulses[i - 1] >= jinterval
            /\ started <= IntervalsStarting
            /\ (pc = "done" /\ AlwaysFalse /\ ~ctxDone) => result = ErrExceeded)
    /\ <>(kind \notin {"deadline", "expiring"} \/ ctxDone \/ ~AlwaysFalse
            \/ (pc = "done" /\ result = ErrExceeded /\ tickClosed))

\* A slow check: with interval 1 and deadline 2 the pulse due at 2 was received
\* at 3, and Poll has ended with Exceeded.
C27_Witness ==
    /\ kind = "deadline"
    /\ jinterval = 1
    /\ jdeadline = 2
    /\ pc = "done"
    /\ result = ErrExceeded
    /\ ~ctxDone
    /\ pulses = <<1, 3>>

\* C31: when ctx becomes done while the condition neither succeeds nor fails
\* and the ticker offers pulse after pulse without ever closing the stream,
\* Poll still returns Cancelled in the end: the ready pulses cannot keep the
\* ctx.Done() case from being taken forever.
C31_CtxNotStarved ==
    [](result \notin {"nil", ErrCondition})
        => (ctxDone ~> (pc = "done" /\ result = ErrCancelled))

\* ctx was done before Poll began, MaxTicks pulses and more were taken and
\* checked all the same, and then Poll returned Cancelled.
C31_Witness ==
    /\ kind = "stream"
    /\ ctxAt = "idle"
    /\ emitted = MaxTicks
    /\ Len(calls) = MaxTicks
    /\ branch = "ctx"
    /\ pc = "done"
    /\ result = ErrCancelled

\* C32: no ticker goroutine is left behind: once Poll has returned, with
\* whatever outcome, the goroutine of its ticker comes to its end, also when
\* it was sleeping or offering a pulse that nobody receives any more.
C32_TickerEnds == (pc = "done") ~> (tpc = "exit")

\* Poll has returned on a condition that came true, the user-defined ticker
\* was offering its next pulse, long before its last one, and has ended.
C32_Witness ==
    /\ kind = "user"
    /\ pc = "done"
    /\ result = "nil"
    /\ tpc = "exit"
    /\ tcount + 1 < max
    /\ tickClosed

\* Caller c holds mu, as the writer or as a reader, or is in Lock().
Owns(c) == mu.w = c \/ c \in mu.r

\* C33: the load is written only by the caller that holds mu as its writer,
\* with no reader inside, and read by isAllowed only under the read lock; and
\* no caller owns mu while its event executes or while it waits for capacity.
C33_LockDiscipline ==
    /\ [](\A c \in Callers : Owns(c) => call[c].pc \notin {"run", "wait"})
    /\ [](\A c \in Callers : call[c].pc = "reading" => c \in mu.r)
    /\ [][currentLoad' # currentLoad =>
             \E c \in Callers : mu.w = c /\ mu.r = {} /\ call[c].pc # call'[c].pc]_vars

\* One caller is in the critical section before its event, a second runs its
\* event, a third waits for capacity.
C33_Witness ==
    /\ variant = "load"
    /\ \E a, b, c \in Callers :
         /\ mu = [w |-> a, r |-> {}]
         /\ call[a].pc = "before"
         /\ call[b].pc = "run"
         /\ call[c].pc = "wait"
    /\ currentLoad = 1

\* C34: whenever CurrentLoad() of the load tracking throttle is looked at
\* while Process calls are under way, it is at least 0 and below the limit.
C34_LoadBelowLimit ==
    (variant = "load" /\ mu.w = 0) => (0 <= currentLoad /\ currentLoad < limitedLoad)

\* No Process call of the load tracking throttle is under way.
NoneInFlight == \A c \in Callers : call[c].pc \in {"idle", "done"}

\* C38: the load of the load tracking throttle is the number of Process calls
\* that have added their event's load and not taken it back yet; it is never
\* negative; every call that has added it takes it back exactly once on its
\* way out, with whatever its event returned; with no call under way it is 0.
C38_LoadIsInFlight ==
    /\ [](currentLoad = Loaded /\ currentLoad >= 0)
    /\ [](NoneInFlight => currentLoad = 0)
    /\ [][\A c \in Callers :
            /\ (call[c].pc # "run" /\ call'[c].pc = "run") => currentLoad' = currentLoad + 1
            /\ (call[c].pc = "after" /\ call'[c].pc = "done") =>
                   (currentLoad' = currentLoad - 1 /\ call'[c].err \in {"nil", ErrTask})
            /\ (call[c].pc = "done" /\ call[c].ran = 1) => call'[c] = call[c]]_vars

\* Two events are under way and a third call has returned the error of its
\* event after taking its load back.
C38_Witness ==
    /\ variant = "load"
    /\ currentLoad = 2
    /\ \E a, b, c \in Callers :
         /\ call[a].pc = "run"
         /\ call[b].pc = "after"
         /\ call[c].pc = "done" /\ call[c].err = ErrTask /\ call[c].ran = 1

\* C35: MakeJitteringTicker sanitizes interval and offset before it uses
\* them: an interval below a millisecond becomes a millisecond, a negative
\* offset becomes 0, and the interval is capped at the largest Duration less
\* the offset; with that, for all arguments, the offset is not negative and
\* offset + interval does not go beyond the largest Duration.
C35_Sanitized ==
    /\ [][(kind = "none" /\ kind' = "jitter") =>
            LET floored == IF jinterval < Millisecond THEN Millisecond ELSE jinterval IN
              /\ joffset' = (IF joffset < 0 THEN 0 ELSE joffset)
              /\ jinterval' = (IF floored + joffset' > MaxDuration
                               THEN MaxDuration - joffset' ELSE floored)]_vars
    /\ [](kind = "jitter" =>
            /\ joffset >= 0
            /\ joffset + jinterval <= MaxDuration
            /\ DurationAdd(joffset, jinterval) = joffset + jinterval)

\* The ticker has been made on an offset so large that the cap brought the
\* interval down to one clock unit.
C35_Witness ==
    /\ pc = "off"
    /\ kind = "jitter"
    /\ joffset = MaxDuration - 1
    /\ jinterval = 1
    /\ tpc = "change"

\* C36: in the change function of the jitter ticker, with less time left to
\* the deadline than offset + interval the range of the jitter is the time
\* left less the offset, and the function stops when that is not positive; so
\* whenever the function gets to its draw the range it hands to rand.Int is at
\* least 1, whatever the sanitized arguments and the time of the call.
C36_RangeAtLeastOne ==
    (kind = "jitter" /\ tpc = "change" /\ now >= wakeAt /\ JitterDrawn(now)) =>
        /\ JitterRange(now) >= 1
        /\ JitterRange(now) =
              IF jdeadline - now < joffset + jinterval
              THEN jdeadline - now - joffset ELSE jinterval

\* C40: in the change function of the jitter ticker the running fire time
\* next never goes back and is not after the time at which a call begins;
\* every delay returned is at least 0 and at most the wait, offset + jitter,
\* of that call; and whenever the function says continue, the time of the
\* call plus the delay is before the deadline.
C40_FireTime ==
    /\ [][jnext' >= jnext]_vars
    /\ [](kind = "jitter" /\ tpc = "change" => jnext <= now)
    /\ [][(tpc = "change" /\ tpc' = "sleep") =>
            /\ jnext' - jnext >= joffset
            /\ 0 <= tdelay'
            /\ tdelay' <= jnext' - jnext
            /\ now + tdelay' < jdeadline]_vars

\* The change function has been called a second time, after a check that took
\* its time: the fire time lies behind the clock and the delay is 0.
C40_Witness ==
    /\ kind = "jitter"
    /\ tpc = "sleep"
    /\ emitted >= 1
    /\ jnext < now
    /\ tdelay = 0
    /\ now < jdeadline

\* The errors limiter.Wait comes back with.
WaitErrors == {ErrBurst, ErrCtx, ErrDeadline}

\* C39: Process of the limiter throttle runs the task once when the wait for
\* the limiter has succeeded and not at all when it has failed; after the
\* wait it returns what the task returned, nil or the task's error as it is,
\* and after a failed wait the error of the wait, wrapped.
C39_TaskOnceAndResult ==
    /\ [](\A c \in Callers :
            /\ call[c].pc \in {"idle", "wait"} => call[c].ran = 0
            /\ call[c].pc = "run" => call[c].ran = 1
            /\ call[c].pc = "done" =>
                 \/ /\ call[c].ran = 1
                    /\ call[c].err \in {"nil", ErrTask}
                    /\ call[c].wrap = ""
                 \/ /\ call[c].ran = 0
                    /\ call[c].err \in WaitErrors
                    /\ call[c].wrap = WaitWrap)
    /\ [][\A c \in Callers :
            /\ call[c].pc = "run" => call'[c].pc \in {"run", "done"}
            /\ call[c].pc = "done" => call'[c] = call[c]
            /\ (call[c].pc = "wait" /\ call'[c].pc = "done") =>
                   (call[c].cancelled /\ call'[c].err = ErrCtx)]_vars

\* One call has returned the error of its task, one the wrapped error of a
\* wait that failed on its context, one nil.
C39_Witness ==
    /\ variant = "limiter"
    /\ \E a, b, c \in Callers :
         /\ call[a].pc = "done" /\ call[a].ran = 1 /\ call[a].err = ErrTask
         /\ call[b].pc = "done" /\ call[b].ran = 0 /\ call[b].err = ErrCtx
         /\ call[b].wrap = WaitWrap
         /\ call[c].pc = "done" /\ call[c].ran = 1 /\ call[c].err = "nil"

\* C37: a convenience function (WithInterval, WithMaxIntervals, WithDeadline,
\* WithTimeout, WithJitter) leaves Poll, the ticker, the context and the
\* condition exactly where making the matching ticker from the same arguments
\* and calling Poll with it leaves them, so that outcome and number of
\* condition checks are those of that Poll.
C37_ConvenienceIsPoll ==
    [][(pc = "off" /\ kind = "none" /\ pc' = "select") =>
          LET m == Made(kind', now, jinterval, joffset, jdeadline, max) IN
            /\ kind' \in WithKinds
            /\ max' = m.max
            /\ jinterval' = m.jinterval
            /\ joffset' = m.joffset
            /\ jdeadline' = m.jdeadline
            /\ jnext' = m.jnext
            /\ tpc' = "change"
            /\ UNCHANGED <<result, cause, branch, ctxVars, tickCtxDone, tdelay,
                           tcount, tickClosed, emitted, condVars, now, wakeAt,
                           throttleVars>>]_vars

\* Poll on the jitter ticker made of an interval, an offset above zero and a
\* timeout has returned nil after more than one check.
C37_Witness ==
    /\ kind = "jitter"
    /\ joffset = MaxOffset
    /\ jdeadline = MaxTimeout
    /\ pc = "done"
    /\ result = "nil"
    /\ started > 1

====
